---------------------------- MODULE Spec2Model ----------------------------
(***************************************************************************)
(* ComfyUI-KikoStats, the Resource Monitor front end (the fullest of the   *)
(* three copies of resource_monitor_ui.js, src/unnamed/part_001).          *)
(*                                                                         *)
(* Two pieces of the extension are modelled:                               *)
(*   - the execution event correlator of setup(): the "executing" and      *)
(*     "executed" listeners that keep window.kikoStatsActiveNodes (a Map)  *)
(*     and window.kikoStatsCompletedNodes (an array of at most 10);        *)
(*   - one ResourceMonitor node instance: its current snapshot, its five   *)
(*     60-slot history rings and their shared cursor, its update timer and *)
(*     its display settings with the localStorage item that keeps them,    *)
(*     its size with the manual-resize flag, its popout window, and its    *)
(*     removal from the graph, with the animation-frame and timeout        *)
(*     callbacks its handlers leave pending.                               *)
(*                                                                         *)
(* Numbers.  Math.random() is a draw r in 0..999, standing for r/1000.     *)
(* Mock percentages are kept in thousandths of a percent, so that          *)
(* Math.random() * 20 + 5 is r * 20 + 5000.  Durations and the clock are   *)
(* integer milliseconds.  The temperature percentage (t / 90 * 100) is     *)
(* kept in ninths of a percent, t * 10, so that it stays exact.            *)
(***************************************************************************)
EXTENDS Integers, Sequences, FiniteSets, TLC

VARIABLES
    now,                      \* Date.now(), milliseconds since page load
    kikoStatsActiveNodes,     \* window.kikoStatsActiveNodes: Map in insertion order
    kikoStatsCompletedNodes,  \* window.kikoStatsCompletedNodes: array, newest last
    lastEvent,                \* the host event handled last, and how many records it pushed
    emitted,                  \* history: every mockMetrics record pushed so far
    sinceRunEnd,              \* history: unit-start / unit-end events since the last run-end
    startTimes,               \* history: first and latest unit-start time of each unit's latest activation
    monitor,                  \* the ResourceMonitor node (its fields), Null before it is created
    ingested,                 \* history: the snapshot values of each updateResourceData call
    delivered,                \* history: the last call of updateResourceData
    intervals,                \* the live setInterval timers of the page
    intervalSeq,              \* the id setInterval returned last
    localStorage,             \* the item 'kikoStats_settings' of localStorage
    ResizeObserver,           \* the page's window has a ResizeObserver constructor
    Chart                     \* typeof Chart !== 'undefined': Chart.js is loaded

correlatorVars == <<kikoStatsActiveNodes, kikoStatsCompletedNodes, emitted,
                    sinceRunEnd, startTimes>>

monitorVars == <<monitor, ingested, delivered, intervals, intervalSeq, localStorage,
                 ResizeObserver, Chart>>

vars == <<now, lastEvent, correlatorVars, monitorVars>>

-----------------------------------------------------------------------------
(* Bounds of the model.                                                    *)

MaxClockSteps == 2     \* the clock advances at most this many times
ClockStepMs == 500     \* by this many milliseconds each time
MaxProduced == 2       \* records produced in one behaviour of Spec
MaxStarts == 3         \* unit-start events between two run-ends
MaxLogProduced == 12   \* records produced in one behaviour of SpecLog
MaxFlushStarts == 3    \* unit-start events between two run-ends of SpecFlush
MaxFlushProduced == 11 \* records produced in one behaviour of SpecFlush
FlushWarmUp == 8       \* runs of unit 1 alone that open a behaviour of SpecFlush
MaxSamples == 125      \* samples ingested in one behaviour of SpecRing
MaxTimerTicks == 1     \* of which timer ticks
MaxIngestions == 2     \* samples ingested in one behaviour of SpecIngest
MaxPanelIngestions == 2  \* samples ingested in one behaviour of SpecPanel
MaxHostStarts == 1     \* unit-starts between two run-ends of SpecHost
MaxHostProduced == 1   \* metrics records emitted in one behaviour of SpecHost
MaxHostIngestions == 1 \* samples ingested in one behaviour of SpecHost
MaxWindowIngestions == 2  \* samples ingested in one behaviour of SpecWindow
MaxWindowIntervals == 2   \* timers started in one behaviour of SpecWindow

(* Program constants.                                                      *)

MaxCompleted == 10     \* "Keep only last 10 nodes"
HistoryLen == 60       \* new Array(60), % 60

\* the node ids that take part in the runs
Units == {1, 2}

Null == [null |-> TRUE]

\* new Array(n).fill(0)
NewArray(n) == [i \in 0..(n - 1) |-> 0]

-----------------------------------------------------------------------------
(* Strings that the program searches are sequences of one-character       *)
(* strings; the empty string is << >>.                                     *)

KSampler == <<"K", "S", "a", "m", "p", "l", "e", "r">>
KSamplerSelect == KSampler \o <<"S", "e", "l", "e", "c", "t">>
VAEDecode == <<"V", "A", "E", "D", "e", "c", "o", "d", "e">>
Sampler == <<"S", "a", "m", "p", "l", "e", "r">>
Unknown == <<"U", "n", "k", "n", "o", "w", "n">>

\* String.prototype.includes: pattern occurs somewhere in text
StringIncludes(text, pattern) ==
    \E i \in 0..(Len(text) - Len(pattern)) :
        SubSeq(text, i + 1, i + Len(pattern)) = pattern

(* The host graph: app.graph.getNodeById.  A node that is not in the graph *)
(* is undefined; a falsy type or title is the empty string.                *)

getNodeById(id) ==
    CASE id = 1 -> [type |-> KSamplerSelect, title |-> Sampler]
      [] id = 2 -> [type |-> <<>>, title |-> <<>>]
      [] OTHER  -> [type |-> VAEDecode, title |-> <<>>]

\* nodeData.nodeType.includes('KSampler')
IncludesKSampler(nodeType) == StringIncludes(nodeType, KSampler)

-----------------------------------------------------------------------------
(* A JavaScript Map keyed by nodeId, as the sequence of its values in      *)
(* insertion order.                                                        *)

MapHas(m, k) == \E i \in 1..Len(m) : m[i].nodeId = k

MapGet(m, k) == m[CHOOSE i \in 1..Len(m) : m[i].nodeId = k]

MapSetAlwaysAppends(m, k, v) == Append(m, v)

\* Map.prototype.set: an existing key keeps its place and takes the new value
MapSet(m, k, v) ==
    IF MapHas(m, k)
    THEN [i \in 1..Len(m) |-> IF m[i].nodeId = k THEN v ELSE m[i]]
    ELSE Append(m, v)

MapDeleteForgets(m, k) == m

MapDelete(m, k) == SelectSeq(m, LAMBDA e : e.nodeId # k)

KeepFirst(s) ==
    IF Len(s) > MaxCompleted THEN SubSeq(s, 1, MaxCompleted) ELSE s

\* if (a.length > 10) a = a.slice(-10)
KeepLast(s) ==
    IF Len(s) > MaxCompleted
    THEN SubSeq(s, Len(s) - MaxCompleted + 1, Len(s))
    ELSE s

-----------------------------------------------------------------------------
(* Random draws.  One record of draws per mockMetrics object, one field    *)
(* per Math.random() call of the object literal.                           *)

RandomUnit == 0..999

Draws(dur, avgCpu, maxCpu, avgGpu, maxGpu, peak, delta) ==
    [dur |-> dur, avgCpu |-> avgCpu, maxCpu |-> maxCpu, avgGpu |-> avgGpu,
     maxGpu |-> maxGpu, peak |-> peak, delta |-> delta]

\* the draws the correlator specifications enumerate: the two ends of the
\* range for the duration, the middle for the rest
CorrelatorDraws == { Draws(d, 500, 500, 500, 500, 500, 500) : d \in {0, 999} }

\* Math.random() * 29000 + 1000
MockDuration(r) == r.dur * 29 + 1000

\* the mockMetrics object literal of both listeners
MockMetrics(nodeId, nodeData, duration, r) ==
    [node_id             |-> nodeId,
     node_type           |-> nodeData.nodeType,
     node_title          |-> nodeData.nodeTitle,
     duration_ms         |-> duration,
     avg_cpu_percent     |-> r.avgCpu * 20 + 5000,
     max_cpu_percent     |-> r.maxCpu * 30 + 10000,
     avg_gpu_utilization |-> IF IncludesKSampler(nodeData.nodeType)
                             THEN r.avgGpu * 60 + 40000 ELSE r.avgGpu * 20,
     max_gpu_utilization |-> IF IncludesKSampler(nodeData.nodeType)
                             THEN r.maxGpu * 80 + 60000 ELSE r.maxGpu * 30,
     peak_vram_used      |-> r.peak * 1000 + 1000000,
     vram_delta          |-> r.delta * 500 - 250000,
     sample_count        |-> (duration \div 1000) + 1]

-----------------------------------------------------------------------------
(* The correlator: the "executing" and "executed" listeners of setup().    *)

NoStart == [first |-> -1, latest |-> -1]

StartTimeKeepsFirst(id) ==
    IF MapHas(kikoStatsActiveNodes, id)
    THEN MapGet(kikoStatsActiveNodes, id).startTime
    ELSE now

\* startTime: Date.now()
StartTime(id) == now

\* "executing" with a node id: unit-start
UnitStart(id) ==
    LET node      == getNodeById(id)
        nodeType  == IF node.type = <<>> THEN Unknown ELSE node.type
        nodeTitle == IF node.title = <<>> THEN nodeType ELSE node.title
        nodeData  == [nodeId |-> id, nodeType |-> nodeType, nodeTitle |-> nodeTitle,
                      startTime |-> StartTime(id), samples |-> <<>>]
    IN  /\ kikoStatsActiveNodes' = MapSet(kikoStatsActiveNodes, id, nodeData)
        /\ lastEvent' = [type |-> "unit-start", id |-> id, produced |-> 0]
        /\ sinceRunEnd' = [sinceRunEnd EXCEPT !.starts = @ + 1, !.ids = @ \cup {id}]
        /\ startTimes' = [startTimes EXCEPT ![id] =
                            IF MapHas(kikoStatsActiveNodes, id)
                            THEN [@ EXCEPT !.latest = now]
                            ELSE [first |-> now, latest |-> now]]
        /\ UNCHANGED <<now, kikoStatsCompletedNodes, emitted, monitorVars>>

\* the duration the run-end loop gives a unit: mockDuration
RunEndDuration(nodeData, r) == MockDuration(r)

RunEndKeepsActive(m) == m

\* window.kikoStatsActiveNodes.clear()
MapClear(m) == <<>>

\* "executing" with null: run-end, up to the update of the monitor nodes.
\* rs[i] are the draws of the i-th entry.
RunEndCorrelator(rs) ==
    LET records == [i \in 1..Len(kikoStatsActiveNodes) |->
                      MockMetrics(kikoStatsActiveNodes[i].nodeId,
                                  kikoStatsActiveNodes[i],
                                  RunEndDuration(kikoStatsActiveNodes[i], rs[i]),
                                  rs[i])]
    IN  /\ kikoStatsCompletedNodes' = KeepLast(kikoStatsCompletedNodes \o records)
        /\ kikoStatsActiveNodes' = MapClear(kikoStatsActiveNodes)
        /\ lastEvent' = [type |-> "run-end", id |-> 0,
                         produced |-> Len(kikoStatsActiveNodes)]
        /\ emitted' = emitted \o records
        /\ sinceRunEnd' = [starts |-> 0, ids |-> {}, endSeen |-> FALSE]
        /\ UNCHANGED <<startTimes, now>>

UnitEndOfUnknownTracks(id, r) ==
    LET nodeData == [nodeId |-> id, nodeType |-> Unknown, nodeTitle |-> Unknown,
                     startTime |-> now, samples |-> <<>>]
    IN  /\ kikoStatsActiveNodes' = Append(kikoStatsActiveNodes, nodeData)
        /\ UNCHANGED <<kikoStatsCompletedNodes, emitted, startTimes>>

UnitEndOfUnknownAppends(id, r) ==
    LET nodeData == [nodeId |-> id, nodeType |-> Unknown, nodeTitle |-> Unknown,
                     startTime |-> now, samples |-> <<>>]
        record   == MockMetrics(id, nodeData, 0, r)
    IN  /\ kikoStatsCompletedNodes' = KeepLast(Append(kikoStatsCompletedNodes, record))
        /\ emitted' = Append(emitted, record)
        /\ UNCHANGED <<kikoStatsActiveNodes, startTimes>>

\* the first "executed" listener when has(nodeId) is false: nothing
UnitEndOfUnknown(id, r) ==
    UNCHANGED <<kikoStatsActiveNodes, kikoStatsCompletedNodes, emitted, startTimes>>

\* the first "executed" listener: unit-end
UnitEndCorrelator(id, r) ==
    /\ IF MapHas(kikoStatsActiveNodes, id)
       THEN LET nodeData       == MapGet(kikoStatsActiveNodes, id)
                endTime        == now
                actualDuration == endTime - nodeData.startTime
                record         == MockMetrics(id, nodeData, actualDuration, r)
            IN  /\ kikoStatsCompletedNodes' =
                       KeepLast(Append(kikoStatsCompletedNodes, record))
                /\ kikoStatsActiveNodes' = MapDelete(kikoStatsActiveNodes, id)
                /\ emitted' = Append(emitted, record)
                /\ UNCHANGED startTimes
       ELSE UnitEndOfUnknown(id, r)
    /\ lastEvent' = [type |-> "unit-end", id |-> id,
                     produced |-> Len(emitted') - Len(emitted)]
    /\ sinceRunEnd' = [sinceRunEnd EXCEPT !.endSeen = TRUE]
    /\ UNCHANGED now

\* Date.now() moves on between two events
AdvanceClock ==
    /\ now' = now + ClockStepMs
    /\ UNCHANGED <<lastEvent, correlatorVars, monitorVars>>

-----------------------------------------------------------------------------
(* One ResourceMonitor node.  A raw sample is Null or a record that may    *)
(* have the keys                                                           *)
(*   gpu    : Null or a record that may have the keys available,           *)
(*            utilization, memory_used, memory_total, temperature,         *)
(*   system : Null or a record that may have the keys available,           *)
(*            cpu_percent, ram_used, ram_total                             *)
(* (memory_percent, ram_percent and power_draw are never read).  A key a   *)
(* record lacks reads as undefined.  The timestamp of a sample is a number *)
(* of seconds, kept in thousandths of a second: Date.now() / 1000 is now.  *)

\* stats.gpu, stats.system with stats = rawData || {}
SectionOf(rawData, name) ==
    IF rawData = Null THEN Null
    ELSE IF name \in DOMAIN rawData THEN rawData[name] ELSE Null

\* section?.key || 0
Field(section, key) ==
    IF section = Null THEN 0
    ELSE IF key \in DOMAIN section THEN section[key] ELSE 0

\* JavaScript's undefined in a place where the program expects a number;
\* no resource value of the model is negative
undefined == -1

\* section.key of a section that is there: undefined when it has no such key
Property(section, key) ==
    IF key \in DOMAIN section THEN section[key] ELSE undefined

\* section?.available || false
Available(section) ==
    /\ section # Null
    /\ "available" \in DOMAIN section
    /\ section.available

RoundDown(a, b) == a \div b

\* Math.round(a / b) for a >= 0, b > 0
Round(a, b) == (2 * a + b) \div (2 * b)

(* (used / total) * 100 in IEEE-754 double arithmetic.  The quotient is    *)
(* rounded to 53 bits before it is multiplied, so the product differs     *)
(* from the exact value by a few units in the last place: enough to       *)
(* change Math.round only when the exact value is k + 1/2, that is when   *)
(* used / total = m / 200 with m = 2k + 1.                                 *)

\* the largest e with 2^e <= a / b, for a > 0 and b > 0
RECURSIVE Log2Floor(_, _)
Log2Floor(a, b) ==
    IF a >= b
    THEN IF a < 2 * b THEN 0 ELSE 1 + Log2Floor(a, 2 * b)
    ELSE Log2Floor(2 * a, b) - 1

\* 2^j modulo 200
RECURSIVE Pow2Mod200(_)
Pow2Mod200(j) == IF j = 0 THEN 1 ELSE (2 * Pow2Mod200(j - 1)) % 200

\* (m / 200) * 100 < m / 2 in double arithmetic, for odd m.  With e the
\* exponent of m / 200, the quotient drops r / 200 units in the last place
\* (r < 100: rounded down); the product then falls r / 2 of those units
\* below m / 2, whose own units are 2^(e2 - e) times as large, and is
\* rounded away from m / 2 when that is more than half such a unit.  Below
\* m / 2 = 1/2, a power of two, the units are half as large.
DoubleTieRoundsDown(m) ==
    LET e  == Log2Floor(m, 200)
        e2 == Log2Floor(m, 2)
        r  == ((m % 200) * Pow2Mod200(52 - e)) % 200
    IN  /\ 64 < r
        /\ r < 100
        /\ e2 - e = 6 \/ m = 1

\* total > 0 ? Math.round((used / total) * 100) : 0
Percent(used, total) ==
    IF total > 0
    THEN IF /\ 2 * ((100 * used) % total) = total
            /\ DoubleTieRoundsDown((200 * used) \div total)
         THEN (100 * used) \div total
         ELSE Round(100 * used, total)
    ELSE 0

\* Math.min((t / 90) * 100, 100), in ninths of a percent
TempPercent(t) == IF t * 10 < 900 THEN t * 10 ELSE 900

\* Math.floor(Math.random() * 25) + 45, d = Math.floor(Math.random() * 25)
MockTemperature(d) == d + 45

(* The values of the node's display settings are JSON values, each with   *)
(* its type: a string, an array of strings, a number, null, or undefined  *)
(* before loadSettings has run.                                            *)

JString(s) == [t |-> "string", v |-> s]
JArray(a) == [t |-> "array", v |-> a]
JNumber(n) == [t |-> "number", v |-> n]
JNull == [t |-> "null"]
JUndefined == [t |-> "undefined"]

Combined == JString("combined")
Individual == JString("individual")

\* value.includes is a function: arrays and strings have one
HasIncludes(j) == j.t \in {"array", "string"}

\* value.forEach is a function: arrays have one
HasForEach(j) == j.t = "array"

\* s.length of the strings the model stores
StringLength(s) ==
    CASE s \in {"cpu", "gpu", "ram"}    -> 3
      [] s \in {"vram", "temp", "disk"} -> 4
      [] s = "stacked"                  -> 7
      [] s = "combined"                 -> 8
      [] s = "individual"               -> 10

\* value.length: undefined for a value that has none
Length(j) ==
    CASE j.t = "array"  -> Len(j.v)
      [] j.t = "string" -> StringLength(j.v)
      [] OTHER          -> undefined

(* An exception in flight is the node's field threw: an operator that      *)
(* throws returns the node as the code has left it with threw set, and     *)
(* its caller stops there.                                                 *)

\* drawChart (the later definition, which replaces the earlier): past its
\* early returns it filters the resources with this.enabledPanels.includes,
\* a TypeError when enabledPanels has no such method; the canvas is there
\* once the container is
drawChartThrows(self) ==
    /\ self.chartContext /\ self.container
    /\ self.displayMode # Individual
    /\ ~HasIncludes(self.enabledPanels)

\* drawPopoutChart: likewise, past its early returns
drawPopoutChartThrows(self) ==
    self.popoutCanvas /\ ~HasIncludes(self.enabledPanels)

\* updateAllUI: whether the one chart update it dispatches to throws
updateAllUIThrows(self) ==
    IF self.isChartsPoppedOut
    THEN IF self.displayMode = Individual /\ self.popoutIndividualCanvases
         THEN FALSE
         ELSE drawPopoutChartThrows(self)
    ELSE IF self.displayMode = Individual /\ self.individualCanvases
         THEN FALSE
         ELSE drawChartThrows(self)

updateHistoryBuffersSkipsASlot(self) ==
    LET i == self.historyIndex
        c == self.currentResourceData
    IN  [self EXCEPT !.cpuHistory[i]  = c.cpu.value,
                     !.gpuHistory[i]  = c.gpu.value,
                     !.vramHistory[i] = c.vram.value,
                     !.ramHistory[i]  = c.ram.value,
                     !.tempHistory[i] = c.temp.percent,
                     !.historyIndex   = (i + 2) % HistoryLen]

updateHistoryBuffersTempLags(self) ==
    LET i == self.historyIndex
        c == self.currentResourceData
    IN  [self EXCEPT !.cpuHistory[i]  = c.cpu.value,
                     !.gpuHistory[i]  = c.gpu.value,
                     !.vramHistory[i] = c.vram.value,
                     !.ramHistory[i]  = c.ram.value,
                     !.tempHistory[(i + 1) % HistoryLen] = c.temp.percent,
                     !.historyIndex   = (i + 1) % HistoryLen]

\* updateHistoryBuffers
updateHistoryBuffers(self) ==
    LET i == self.historyIndex
        c == self.currentResourceData
    IN  [self EXCEPT !.cpuHistory[i]  = c.cpu.value,
                     !.gpuHistory[i]  = c.gpu.value,
                     !.vramHistory[i] = c.vram.value,
                     !.ramHistory[i]  = c.ram.value,
                     !.tempHistory[i] = c.temp.percent,
                     !.historyIndex   = (i + 1) % HistoryLen]

\* updateResourceData; tempDraw is the draw of the "final safety net"
updateResourceData(self, rawData, tempDraw) ==
    LET gpu         == SectionOf(rawData, "gpu")
        system      == SectionOf(rawData, "system")
        cpuValue    == IF Available(system) THEN Property(system, "cpu_percent") ELSE 0
        gpuValue    == IF Available(gpu) THEN Property(gpu, "utilization") ELSE 0
        vramUsed    == Field(gpu, "memory_used")
        vramTotal   == Field(gpu, "memory_total")
        vramPercent == Percent(vramUsed, vramTotal)
        ramUsed     == Field(system, "ram_used")
        ramTotal    == Field(system, "ram_total")
        ramPercent  == Percent(ramUsed, ramTotal)
        tempValue   == Field(gpu, "temperature")
        forced      == tempValue = 0 /\ Available(gpu)
        forcedTemp  == MockTemperature(tempDraw)
        current     ==
            [cpu  |-> [value |-> cpuValue, available |-> Available(system)],
             gpu  |-> [value |-> gpuValue, available |-> Available(gpu)],
             vram |-> [value |-> vramPercent, percent |-> vramPercent,
                       used |-> vramUsed, total |-> vramTotal,
                       available |-> Available(gpu)],
             ram  |-> [value |-> ramPercent, percent |-> ramPercent,
                       used |-> ramUsed, total |-> ramTotal,
                       available |-> Available(system)],
             temp |-> [value     |-> IF forced THEN forcedTemp ELSE tempValue,
                       percent   |-> IF forced THEN TempPercent(forcedTemp)
                                               ELSE TempPercent(tempValue),
                       available |-> Available(gpu)],
             timestamp |-> now]
        written     == updateHistoryBuffers([self EXCEPT !.currentResourceData = current])
    IN  [written EXCEPT !.threw = updateAllUIThrows(written)]

\* updateMonitoringData: [...(data.nodes || []), ...frontendNodes]
allNodes(data, frontendNodes) ==
    (IF "nodes" \in DOMAIN data THEN data.nodes ELSE <<>>) \o frontendNodes

\* the draws of getResourceStats: one field per Math.floor(Math.random() * n)
StatsDraws(temp, cpu, gpu, vram, ram) ==
    [temp |-> temp, cpu |-> cpu, gpu |-> gpu, vram |-> vram, ram |-> ram]

\* this.latestMonitorData && this.latestMonitorData.gpu && this.latestMonitorData.system
HasMonitorData(self) ==
    /\ self.latestMonitorData # Null
    /\ SectionOf(self.latestMonitorData, "gpu") # Null
    /\ SectionOf(self.latestMonitorData, "system") # Null

\* getResourceStats, what it leaves in this.latestMonitorData: a temperature
\* of 0 is overwritten in place
latestAfterGetResourceStats(self, d) ==
    IF /\ HasMonitorData(self)
       /\ "temperature" \in DOMAIN self.latestMonitorData.gpu
       /\ self.latestMonitorData.gpu.temperature = 0
    THEN [self.latestMonitorData EXCEPT !.gpu.temperature = MockTemperature(d.temp)]
    ELSE self.latestMonitorData

\* getResourceStats, what it returns
getResourceStats(self, d) ==
    IF HasMonitorData(self)
    THEN latestAfterGetResourceStats(self, d)
    ELSE [gpu    |-> [available |-> TRUE, utilization |-> d.gpu + 20,
                      memory_used |-> d.vram + 2000, memory_total |-> 8192,
                      temperature |-> MockTemperature(d.temp)],
          system |-> [available |-> TRUE, cpu_percent |-> d.cpu + 10,
                      ram_used |-> d.ram + 4000, ram_total |-> 16384],
          timestamp |-> now]

\* updateChart: stats is never "waiting", so every call is an ingestion
updateChart(self, d, tempDraw) ==
    IF ~self.container THEN self
    ELSE updateResourceData(
             [self EXCEPT !.latestMonitorData = latestAfterGetResourceStats(self, d)],
             getResourceStats(self, d), tempDraw)

(* Display settings.  localStorage is the item 'kikoStats_settings':      *)
(* Null when there is none, else [kind, value] with kind                   *)
(*   "blocked"  getItem and setItem throw,                                 *)
(*   "empty"    the empty string,                                          *)
(*   "garbage"  a text JSON.parse throws on,                               *)
(*   "json"     a text that parses to value: Null for JSON null, else a    *)
(*              record of the keys the parsed value has, each key holding  *)
(*              a JSON value: a string, an array, a number or null.        *)

DefaultPanels == <<"cpu", "gpu", "vram", "ram", "temp">>

StoredItem(kind, value) == [kind |-> kind, value |-> value]

\* whether the left operand of  settings.key || default  is kept: every
\* array is truthy, the empty string, 0 and null are not
Truthy(j) ==
    CASE j.t = "string" -> j.v # ""
      [] j.t = "number" -> j.v # 0
      [] j.t = "array"  -> TRUE
      [] OTHER          -> FALSE

loadSettingsIgnoresStore(self, item) ==
    [self EXCEPT !.displayMode = Combined, !.enabledPanels = JArray(DefaultPanels),
                 !.panelOrder = JArray(DefaultPanels)]

\* loadSettings: a stored value that is not falsy is kept as it is,
\* whatever its type
loadSettings(self, item) ==
    LET settings == item.value
        parsed   == item # Null /\ item.kind = "json" /\ settings # Null
        \* settings.key || default
        or(key, default) == IF parsed /\ key \in DOMAIN settings
                               /\ Truthy(settings[key])
                            THEN settings[key] ELSE default
    IN  [self EXCEPT
            !.displayMode   = or("displayMode", Combined),
            !.enabledPanels = or("enabledPanels", JArray(DefaultPanels)),
            !.panelOrder    = or("panelOrder", JArray(DefaultPanels))]

(* JSON text is the sequence of its tokens: braces, brackets, keys and     *)
(* strings.                                                                *)

Token(t, s) == [t |-> t, s |-> s]

StringifyArray(a) ==
    <<Token("[", "")>> \o [i \in 1..Len(a) |-> Token("str", a[i])]
                      \o <<Token("]", "")>>

JSONStringifyDropsEmptyArrays(settings) ==
    <<Token("{", ""), Token("key", "displayMode"),
      Token("str", settings.displayMode.v)>>
    \o (IF settings.panelOrder.v = <<>> THEN <<>>
        ELSE <<Token("key", "panelOrder")>> \o StringifyArray(settings.panelOrder.v))
    \o (IF settings.enabledPanels.v = <<>> THEN <<>>
        ELSE <<Token("key", "enabledPanels")>>
             \o StringifyArray(settings.enabledPanels.v))
    \o <<Token("}", "")>>

\* JSON.stringify(settings) of the settings object saveSettings.onclick
\* builds: a string and two arrays of strings
JSONStringify(settings) ==
    <<Token("{", ""), Token("key", "displayMode"),
      Token("str", settings.displayMode.v)>>
    \o <<Token("key", "panelOrder")>> \o StringifyArray(settings.panelOrder.v)
    \o <<Token("key", "enabledPanels")>> \o StringifyArray(settings.enabledPanels.v)
    \o <<Token("}", "")>>

\* the index of the bracket that closes the array opened at text[i]
ArrayEnd(text, i) ==
    CHOOSE j \in (i + 1)..Len(text) :
        /\ text[j].t = "]"
        /\ \A k \in (i + 1)..(j - 1) : text[k].t # "]"

RECURSIVE ParseMembers(_, _, _)
\* the members of an object from text[i] on, added to those of acc
ParseMembers(text, i, acc) ==
    IF text[i].t # "key" THEN acc
    ELSE IF text[i + 1].t = "str"
         THEN ParseMembers(text, i + 2,
                           acc @@ (text[i].s :> JString(text[i + 1].s)))
         ELSE LET j == ArrayEnd(text, i + 1)
              IN  ParseMembers(text, j + 1,
                      acc @@ (text[i].s :>
                                 JArray([k \in 1..(j - i - 2) |->
                                            text[i + 1 + k].s])))

\* JSON.parse(savedSettings) of a text that JSON.stringify wrote
JSONParse(text) == ParseMembers(text, 2, <<>>)

\* localStorage.setItem('kikoStats_settings', JSON.stringify(settings)) in
\* its try block; storeOk is false when the store refuses the write.  The
\* item is kept as what JSON.parse makes of the text.
setItem(item, settings, storeOk) ==
    IF storeOk /\ (item = Null \/ item.kind # "blocked")
    THEN StoredItem("json", JSONParse(JSONStringify(settings)))
    ELSE item

\* whether setItem writes the item
setItemStores(item, storeOk) == storeOk /\ (item = Null \/ item.kind # "blocked")

(* The node's size is the pair <<width, height>>.                           *)

Max(a, b) == IF a > b THEN a ELSE b

Min(a, b) == IF a < b THEN a ELSE b

\* the height NaN, which no height the code computes otherwise equals
NaN == -2

\* computeSize, with window.kikoStatsCompletedNodes passed as completedNodes
computeSize(self, completedNodes) ==
    LET headerHeight       == 100
        statsBarHeight     == 80
        chartHeight        == 140
        baseNodeListHeight == 90
        padding            == 60
        length             == Len(completedNodes)
        visibleNodes       == IF length < 15 THEN length ELSE 15
        nodeListHeight     == IF length > 0
                              THEN 50 + (visibleNodes * 45) + 30
                                   + (IF length > 15 THEN 20 ELSE 0)
                              ELSE baseNodeListHeight
        individual         == self.displayMode = Individual
        \* this.enabledPanels ? this.enabledPanels.length : 5, of a value
        \* loadSettings has left truthy
        panelCount         == Length(self.enabledPanels)
        panelHeight        == 82
        \* undefined * panelHeight is NaN, and so are the sums it enters
        totalHeight        ==
            IF individual /\ panelCount = undefined THEN NaN
            ELSE IF self.isChartsPoppedOut
            THEN IF individual
                 THEN headerHeight + statsBarHeight + nodeListHeight + padding
                      - (panelCount * panelHeight)
                 ELSE headerHeight + statsBarHeight + nodeListHeight + padding
                      - chartHeight
            ELSE IF individual
                 THEN headerHeight + statsBarHeight + (panelCount * panelHeight)
                      + nodeListHeight + padding
                 ELSE headerHeight + statsBarHeight + chartHeight
                      + nodeListHeight + padding
        maxHeight          == IF individual THEN 1200 ELSE 1000
    \* Math.min(NaN, maxHeight) is NaN
    IN  <<IF individual THEN 420 ELSE 400,
          IF totalHeight = NaN THEN NaN
          ELSE IF totalHeight < maxHeight THEN totalHeight ELSE maxHeight>>

\* the onResize handler onNodeCreated installs: MIN_W = 400, MIN_H = 600;
\* NaN < MIN_H is false
onResizeOriginal(size) ==
    <<Max(size[1], 400), IF size[2] = NaN THEN NaN ELSE Max(size[2], 600)>>

\* this.onResize(size): the original handler, wrapped by setupZoomHandling
\* once buildCombinedChart has run (zoomHandling); the wrapper marks the
\* resize as manual unless programmaticResize is set and (re)arms its
\* 100 ms debounce timeout
onResize(self, size, programmaticResize) ==
    [self EXCEPT !.size = onResizeOriginal(size),
                 !.userHasManuallyResized =
                     IF self.zoomHandling /\ ~programmaticResize THEN TRUE ELSE @,
                 !.resizeDebounceTimeout = IF self.zoomHandling THEN TRUE ELSE @]

\* measureActualContentHeight: the layout of the #nodeList element, which
\* the container has from the moment it exists
measureActualContentHeight(self) ==
    IF ~self.container THEN 0
    ELSE LET nodeListMaxHeight       == 400
             effectiveNodeListHeight == Min(self.layout.nodeListScrollHeight,
                                            nodeListMaxHeight)
         IN  self.layout.nodeListOffsetTop + effectiveNodeListHeight + 20

\* calculateAndSetNodeSize: Math.max(NaN, h) is NaN, and NaN differs from
\* every height, itself included
calculateAndSetNodeSize(self, completedNodes) ==
    IF self.userHasManuallyResized THEN self
    ELSE LET computed       == computeSize(self, completedNodes)
             actualHeight   == measureActualContentHeight(self)
             calculatedSize ==
                 IF self.container /\ actualHeight > 0 /\ computed[2] # NaN
                 THEN <<computed[1], Max(computed[2], actualHeight + 50)>>
                 ELSE computed
         IN  IF calculatedSize # self.size \/ calculatedSize[2] = NaN
             THEN onResize(self, calculatedSize, TRUE)
             ELSE self

\* updateNodeList(nodeMetrics): without a list element or with nothing to
\* list the node is sized at once; otherwise the list is written and the
\* sizing is left to the next animation frame
updateNodeList(self, nodeMetrics, completedNodes) ==
    IF ~self.nodeListDiv \/ Len(nodeMetrics) = 0
    THEN calculateAndSetNodeSize(self, completedNodes)
    ELSE [self EXCEPT !.sizeFramePending = TRUE]

\* updateMonitoringData: the snapshot and the rings are written and the
\* charts drawn; then, on a node with a list element, "data.nodes" is read,
\* a TypeError on a null data, and the node list updated
updateMonitoringData(self, data, tempDraw, completedNodes) ==
    LET fed == updateResourceData([self EXCEPT !.latestMonitorData = data],
                                  data, tempDraw)
    IN  IF fed.threw \/ ~fed.nodeListDiv THEN fed
        ELSE IF data = Null THEN [fed EXCEPT !.threw = TRUE]
        ELSE updateNodeList(fed, allNodes(data, completedNodes), completedNodes)

\* buildCombinedChart: the canvas gets its 2d context, then
\* setupZoomHandling, then updateChart
buildCombinedChart(self, d, tempDraw) ==
    updateChart([self EXCEPT !.chartContext = TRUE, !.zoomHandling = TRUE],
                d, tempDraw)

\* this.panelOrder.forEach(id => { if (!this.enabledPanels.includes(id))
\* return; ... }): a TypeError when panelOrder has no forEach, or when it
\* has an element and enabledPanels has no includes
PanelLoopThrows(self) ==
    \/ ~HasForEach(self.panelOrder)
    \/ Len(self.panelOrder.v) > 0 /\ ~HasIncludes(self.enabledPanels)

\* buildIndividualCharts: this.individualCanvases = {}, the loop over the
\* panels, then calculateAndSetNodeSize
buildIndividualCharts(self) ==
    LET cleared == [self EXCEPT !.individualCanvases = TRUE]
    IN  IF PanelLoopThrows(cleared) THEN [cleared EXCEPT !.threw = TRUE]
        ELSE calculateAndSetNodeSize(cleared, kikoStatsCompletedNodes)

\* rebuildInterface
rebuildInterface(self, d, tempDraw) ==
    IF ~self.container THEN self
    ELSE IF self.displayMode = Individual
         THEN buildIndividualCharts(self)
         ELSE buildCombinedChart(self, d, tempDraw)

\* rebuildInterface reaches updateResourceData through buildCombinedChart
RebuildIngests(self) == self.container /\ self.displayMode # Individual

(* The popout window of the charts.                                        *)

\* moveChartsToPopout: in individual mode createPopoutIndividualCharts
\* sets this.popoutIndividualCanvases = {} and loops over the panels;
\* otherwise the popout gets one canvas and its context
moveChartsToPopout(self) ==
    IF ~self.container THEN self
    ELSE IF self.displayMode = Individual
         THEN [self EXCEPT !.popoutIndividualCanvases = TRUE,
                           !.threw = PanelLoopThrows(self)]
         ELSE [self EXCEPT !.popoutCanvas = TRUE]

\* createPopoutWindow: "new ResizeObserver(...)" throws in a window without
\* one, once this.popoutWindow is set and before the charts are moved
createPopoutWindow(self) ==
    IF self.isChartsPoppedOut THEN self
    ELSE IF ~ResizeObserver
         THEN [self EXCEPT !.popoutWindow = TRUE, !.threw = TRUE]
    ELSE LET moved == moveChartsToPopout([self EXCEPT !.popoutWindow = TRUE])
         IN  IF moved.threw THEN moved
             ELSE calculateAndSetNodeSize([moved EXCEPT !.isChartsPoppedOut = TRUE],
                                          kikoStatsCompletedNodes)

\* moveChartsBackToNode
moveChartsBackToNode(self, d, tempDraw) ==
    IF ~self.container THEN self
    ELSE LET back == [self EXCEPT !.popoutCanvas = FALSE,
                                  !.popoutIndividualCanvases = FALSE]
         IN  IF self.displayMode = Individual
             THEN buildIndividualCharts(back)
             ELSE buildCombinedChart(back, d, tempDraw)

\* closePopoutWindow
closePopoutWindow(self, d, tempDraw) ==
    IF ~self.isChartsPoppedOut \/ ~self.popoutWindow THEN self
    ELSE LET moved == moveChartsBackToNode(self, d, tempDraw)
         IN  IF moved.threw THEN moved
             ELSE calculateAndSetNodeSize(
                      [moved EXCEPT !.popoutWindow = FALSE,
                                    !.isChartsPoppedOut = FALSE],
                      kikoStatsCompletedNodes)

\* closePopoutWindow reaches updateResourceData through buildCombinedChart
ClosePopoutIngests(self) ==
    /\ self.isChartsPoppedOut /\ self.popoutWindow
    /\ self.container /\ self.displayMode # Individual

(* The interval timers of the page: intervals is the set of live timer     *)
(* ids, intervalSeq the id setInterval returned last.  A node's            *)
(* chartUpdateInterval is 0 while it holds no id.  The operators that      *)
(* start or stop a timer work on the node and the page's timers together.  *)

World(self, live, seq) == [self |-> self, intervals |-> live, seq |-> seq]

clearChartIntervalForgets(w) == w.intervals

\* if (this.chartUpdateInterval) clearInterval(this.chartUpdateInterval)
clearChartInterval(w) ==
    IF w.self.chartUpdateInterval # 0
    THEN w.intervals \ {w.self.chartUpdateInterval}
    ELSE w.intervals

\* startChartUpdates
startChartUpdates(w) ==
    [self      |-> [w.self EXCEPT !.chartUpdateInterval = w.seq + 1],
     intervals |-> clearChartInterval(w) \cup {w.seq + 1},
     seq       |-> w.seq + 1]

\* restartChartSystem: the timer is cleared and its handle dropped, the
\* canvas gets its context again, the timer is started
restartChartSystem(w) ==
    LET stopped == [self      |-> [w.self EXCEPT !.chartUpdateInterval = 0,
                                                 !.chartContext = @ \/ w.self.container],
                    intervals |-> clearChartInterval(w),
                    seq       |-> w.seq]
    IN  startChartUpdates(stopped)

\* buildMonitorInterface, as onNodeCreated calls it: with Chart.js loaded
\* the canvas goes to a Chart instance, without it the node keeps the
\* canvas's 2d context
buildMonitorInterface(w, item) ==
    startChartUpdates(
        [w EXCEPT !.self =
            [loadSettings(w.self, item) EXCEPT
                !.vramHistory = NewArray(HistoryLen),
                !.ramHistory  = NewArray(HistoryLen),
                !.tempHistory = NewArray(HistoryLen),
                !.currentResourceData =
                    [cpu  |-> [value |-> 0, available |-> FALSE],
                     gpu  |-> [value |-> 0, available |-> FALSE],
                     vram |-> [value |-> 0, percent |-> 0, used |-> 0, total |-> 0,
                               available |-> FALSE],
                     ram  |-> [value |-> 0, percent |-> 0, used |-> 0, total |-> 0,
                               available |-> FALSE],
                     temp |-> [value |-> 0, available |-> FALSE],
                     timestamp |-> 0],
                !.container = TRUE,
                !.nodeListDiv = TRUE,
                !.chartContext = ~Chart,
                !.pendingInitialDraw = TRUE]])

\* the id the graph gives the ResourceMonitor node
MonitorId == 4

\* onNodeCreated: the fields it sets around its call of
\* buildMonitorInterface; registered stands for membership of
\* window.resourceMonitorNodes, chartContext, popoutCanvas,
\* popoutIndividualCanvases, popoutWindow and resizeDebounceTimeout for
\* "holds a context", "holds a canvas", "holds an object", "holds an
\* element" and "holds a pending timeout", threw for an exception in flight
\* (every handler is over with none), layout for what the browser has laid
\* out of the
\* #nodeList element, listFramePending and sizeFramePending for the
\* requestAnimationFrame callbacks of setWorkflowExecutionTime and of
\* updateNodeList that have not run yet
NewMonitorNode ==
    [cpuHistory  |-> NewArray(HistoryLen),
     gpuHistory  |-> NewArray(HistoryLen),
     vramHistory |-> NewArray(HistoryLen),
     ramHistory  |-> NewArray(HistoryLen),
     tempHistory |-> NewArray(HistoryLen),
     historyIndex |-> 0,
     currentResourceData |->
        [cpu  |-> [value |-> 0, available |-> FALSE],
         gpu  |-> [value |-> 0, available |-> FALSE],
         vram |-> [value |-> 0, percent |-> 0, used |-> 0, total |-> 0,
                   available |-> FALSE],
         ram  |-> [value |-> 0, percent |-> 0, used |-> 0, total |-> 0,
                   available |-> FALSE],
         temp |-> [value |-> 0, percent |-> 0, available |-> FALSE],
         timestamp |-> 0],
     latestMonitorData |-> Null,
     container |-> FALSE,
     nodeListDiv |-> FALSE,
     chartUpdateInterval |-> 0,
     displayMode |-> JUndefined,
     enabledPanels |-> JUndefined,
     panelOrder |-> JUndefined,
     chartContext |-> FALSE,
     popoutCanvas |-> FALSE,
     popoutIndividualCanvases |-> FALSE,
     threw |-> FALSE,
     zoomHandling |-> FALSE,
     individualCanvases |-> FALSE,
     pendingInitialDraw |-> FALSE,
     id |-> MonitorId,
     registered |-> TRUE,
     size |-> <<420, 700>>,
     userHasManuallyResized |-> FALSE,
     resizeDebounceTimeout |-> FALSE,
     isChartsPoppedOut |-> FALSE,
     popoutWindow |-> FALSE,
     totalWorkflowExecutionTime |-> Null,
     layout |-> [nodeListOffsetTop |-> 0, nodeListScrollHeight |-> 0],
     listFramePending |-> FALSE,
     sizeFramePending |-> FALSE]

\* the five values an ingestion leaves in the snapshot for the rings
Written(self, by) ==
    [cpu  |-> self.currentResourceData.cpu.value,
     gpu  |-> self.currentResourceData.gpu.value,
     vram |-> self.currentResourceData.vram.value,
     ram  |-> self.currentResourceData.ram.value,
     temp |-> self.currentResourceData.temp.percent,
     by   |-> by]

\* what updateResourceData was called with last, and whether the handler
\* that called it threw afterwards
Delivered(by, data, tempDraw, threw) ==
    [by |-> by, data |-> data, tempDraw |-> tempDraw, threw |-> threw]

\* the node once a handler is over: the exception, if any, has left it
Settled(self) == [self EXCEPT !.threw = FALSE]

\* onNodeCreated
OnNodeCreated ==
    /\ monitor = Null
    /\ LET w == buildMonitorInterface(World(NewMonitorNode, intervals, intervalSeq),
                                      localStorage)
       IN  /\ monitor' = w.self
           /\ intervals' = w.intervals
           /\ intervalSeq' = w.seq
    /\ lastEvent' = [type |-> "node-created", id |-> 0, produced |-> 0]
    /\ UNCHANGED <<now, correlatorVars, ingested, delivered, localStorage, ResizeObserver, Chart>>

\* the "kikostats.monitor" listener: updateMonitoringData(event.detail) on
\* every registered node
MonitorEvent(data, tempDraw) ==
    /\ IF monitor = Null \/ ~monitor.registered
       THEN UNCHANGED <<monitor, ingested, delivered>>
       ELSE LET fed == updateMonitoringData(monitor, data, tempDraw,
                                            kikoStatsCompletedNodes)
            IN  /\ monitor' = Settled(fed)
                /\ ingested' = Append(ingested, Written(fed, "push"))
                /\ delivered' = Delivered("push", data, tempDraw, fed.threw)
    /\ lastEvent' = [type |-> "monitor", id |-> 0, produced |-> 0]
    /\ UNCHANGED <<now, correlatorVars, intervals, intervalSeq, localStorage, ResizeObserver, Chart>>

\* the setInterval callback of startChartUpdates, for the live timer t
TimerTick(t, d, tempDraw) ==
    /\ monitor # Null
    /\ t \in intervals
    /\ LET fed == updateChart(monitor, d, tempDraw)
       IN  /\ monitor' = Settled(fed)
           /\ IF monitor.container
              THEN /\ ingested' = Append(ingested, Written(fed, "timer"))
                   /\ delivered' = Delivered("timer", getResourceStats(monitor, d),
                                             tempDraw, fed.threw)
              ELSE UNCHANGED <<ingested, delivered>>
    /\ lastEvent' = [type |-> "timer", id |-> 0, produced |-> 0]
    /\ UNCHANGED <<now, correlatorVars, intervals, intervalSeq, localStorage, ResizeObserver, Chart>>

\* buildMonitorInterface: the requestAnimationFrame callback that applies
\* the loaded settings: rebuildInterface and updateAllUI, or drawChart in
\* combined mode
InitialDraw(d, tempDraw) ==
    /\ monitor # Null
    /\ monitor.pendingInitialDraw
    /\ LET self == [monitor EXCEPT !.pendingInitialDraw = FALSE]
       IN  IF self.displayMode # Combined
           THEN LET rebuilt == rebuildInterface(self, d, tempDraw)
                IN  /\ monitor' = Settled(rebuilt)
                    /\ IF RebuildIngests(self)
                       THEN /\ ingested' = Append(ingested, Written(rebuilt, "rebuild"))
                            /\ delivered' =
                                  Delivered("rebuild", getResourceStats(self, d), tempDraw,
                                            rebuilt.threw \/ updateAllUIThrows(rebuilt))
                       ELSE UNCHANGED <<ingested, delivered>>
           ELSE /\ monitor' = self
                /\ UNCHANGED <<ingested, delivered>>
    /\ lastEvent' = [type |-> "initial-draw", id |-> 0, produced |-> 0]
    /\ UNCHANGED <<now, correlatorVars, intervals, intervalSeq, localStorage, ResizeObserver, Chart>>

\* buildMonitorInterface: saveSettings.onclick, with the radio button
\* selectedMode checked and the panel items in the order panels, those of
\* checked ticked
SaveSettings(selectedMode, panels, checked, storeOk, d, tempDraw) ==
    /\ monitor # Null
    /\ monitor.registered
    /\ LET self == [monitor EXCEPT
                       !.displayMode   = JString(selectedMode),
                       !.panelOrder    = JArray(panels),
                       !.enabledPanels =
                           JArray(SelectSeq(panels, LAMBDA x : x \in checked))]
           settings == [displayMode   |-> self.displayMode,
                        panelOrder    |-> self.panelOrder,
                        enabledPanels |-> self.enabledPanels]
           rebuilt  == rebuildInterface(self, d, tempDraw)
           sized    == IF rebuilt.threw THEN rebuilt
                       ELSE calculateAndSetNodeSize(rebuilt, kikoStatsCompletedNodes)
       IN  /\ localStorage' = setItem(localStorage, settings, storeOk)
           /\ monitor' = Settled(sized)
           /\ IF RebuildIngests(self)
              THEN /\ ingested' = Append(ingested, Written(sized, "rebuild"))
                   /\ delivered' = Delivered("rebuild", getResourceStats(self, d),
                                             tempDraw, sized.threw)
              ELSE UNCHANGED <<ingested, delivered>>
    /\ lastEvent' = [type |-> "save-settings", id |-> 0, produced |-> 0,
                     stored |-> setItemStores(localStorage, storeOk)]
    /\ UNCHANGED <<now, correlatorVars, intervals, intervalSeq, ResizeObserver, Chart>>

\* the user drags the node to the size size: the graph calls onResize
OnUserResize(size) ==
    /\ monitor # Null
    /\ monitor.registered
    /\ monitor' = onResize(monitor, size, FALSE)
    /\ lastEvent' = [type |-> "user-resize", id |-> 0, produced |-> 0]
    /\ UNCHANGED <<now, correlatorVars, ingested, delivered, intervals,
                   intervalSeq, localStorage, ResizeObserver, Chart>>

\* getMenuOptions: the callback of "Reset to Auto-sizing", an option the
\* menu has while userHasManuallyResized is set
ResetAutoSize ==
    /\ monitor # Null
    /\ monitor.registered
    /\ monitor.userHasManuallyResized
    /\ monitor' = calculateAndSetNodeSize(
                      [monitor EXCEPT !.userHasManuallyResized = FALSE],
                      kikoStatsCompletedNodes)
    /\ lastEvent' = [type |-> "reset-auto-size", id |-> 0, produced |-> 0]
    /\ UNCHANGED <<now, correlatorVars, ingested, delivered, intervals,
                   intervalSeq, localStorage, ResizeObserver, Chart>>

\* popoutBtn.onclick
PopoutClick(d, tempDraw) ==
    /\ monitor # Null
    /\ monitor.registered
    /\ IF monitor.isChartsPoppedOut
       THEN LET closed == closePopoutWindow(monitor, d, tempDraw)
            IN  /\ monitor' = Settled(closed)
                /\ IF ClosePopoutIngests(monitor)
                   THEN /\ ingested' = Append(ingested, Written(closed, "rebuild"))
                        /\ delivered' =
                              Delivered("rebuild", getResourceStats(monitor, d),
                                        tempDraw, closed.threw)
                   ELSE UNCHANGED <<ingested, delivered>>
       ELSE /\ monitor' = Settled(createPopoutWindow(monitor))
            /\ UNCHANGED <<ingested, delivered>>
    /\ lastEvent' = [type |-> "popout-click", id |-> 0, produced |-> 0]
    /\ UNCHANGED <<now, correlatorVars, intervals, intervalSeq, localStorage, ResizeObserver, Chart>>

\* onRemoved: the node is spliced out of window.resourceMonitorNodes
removeFromRegistry(self) == [self EXCEPT !.registered = FALSE]

\* onRemoved (the definition at the end of beforeRegisterNodeDef, which
\* replaces the earlier one): an open popout is closed first, and an
\* exception out of that ends the handler; then the interval is cleared but
\* its handle kept, and the debounce timeout of setupZoomHandling is left
\* pending
OnRemoved(d, tempDraw) ==
    /\ monitor # Null
    /\ monitor.registered
    /\ LET closed == closePopoutWindow(monitor, d, tempDraw)
       IN  /\ monitor' = IF closed.threw THEN Settled(closed)
                          ELSE removeFromRegistry(closed)
           /\ intervals' = IF closed.threw THEN intervals
                            ELSE clearChartInterval(World(closed, intervals, intervalSeq))
           /\ IF ClosePopoutIngests(monitor)
              THEN /\ ingested' = Append(ingested, Written(closed, "rebuild"))
                   /\ delivered' = Delivered("rebuild", getResourceStats(monitor, d),
                                             tempDraw, closed.threw)
              ELSE UNCHANGED <<ingested, delivered>>
    /\ lastEvent' = [type |-> "removed", id |-> 0, produced |-> 0]
    /\ UNCHANGED <<now, correlatorVars, intervalSeq, localStorage, ResizeObserver, Chart>>

\* setupZoomHandling: the debounced callback of its onResize handler.  Its
\* try block resizes and redraws the canvases, which changes nothing of the
\* node's data, and starts the timer when the node holds no handle of one;
\* outside individual mode it calls drawChart on a node that holds a
\* context, and an exception out of that takes it to its catch block, the
\* one caller of restartChartSystem
ResizeDebounced ==
    /\ monitor # Null
    /\ monitor.resizeDebounceTimeout
    /\ LET w0 == World([monitor EXCEPT !.resizeDebounceTimeout = FALSE],
                       intervals, intervalSeq)
           w  == IF drawChartThrows(monitor) THEN restartChartSystem(w0)
                 ELSE IF monitor.chartUpdateInterval = 0 THEN startChartUpdates(w0)
                 ELSE w0
       IN  /\ monitor' = w.self
           /\ intervals' = w.intervals
           /\ intervalSeq' = w.seq
    /\ lastEvent' = [type |-> "resize", id |-> 0, produced |-> 0]
    /\ UNCHANGED <<now, correlatorVars, ingested, delivered, localStorage, ResizeObserver, Chart>>

-----------------------------------------------------------------------------
(* The host's events, with what their listeners do to the monitor node.    *)

\* addCompletedNode and updateCompletedNodes, of a registered node
addCompletedNode(self, completedNodes) ==
    IF self.nodeListDiv
    THEN updateNodeList(self, completedNodes, completedNodes)
    ELSE self

\* "executing" with null: the correlator's flush, then updateCompletedNodes
\* on every registered node
RunEnd(rs) ==
    /\ RunEndCorrelator(rs)
    /\ monitor' = IF monitor # Null /\ monitor.registered
                  THEN addCompletedNode(monitor, kikoStatsCompletedNodes')
                  ELSE monitor
    /\ UNCHANGED <<ingested, delivered, intervals, intervalSeq, localStorage, ResizeObserver, Chart>>

(* The text of an executed output, output.text.join(''), is the sequence   *)
(* of its items [label, value]: the headings 'GPU Statistics' and 'System  *)
(* Statistics' and the lines 'Utilization: v%', 'Temperature: v°C' and     *)
(* 'CPU Usage: v%'.  An output without a text array is Null.  The texts    *)
(* have no memory lines, so that extractMemory finds no match.             *)

Item(label, value) == [label |-> label, value |-> value]

\* textStr.includes(label)
includes(textStr, label) == \E i \in 1..Len(textStr) : textStr[i].label = label

\* extractNumber: the number of the first line the pattern matches, or 0
extractNumber(textStr, label) ==
    IF includes(textStr, label)
    THEN LET first == CHOOSE i \in 1..Len(textStr) :
                          /\ textStr[i].label = label
                          /\ \A k \in 1..(i - 1) : textStr[k].label # label
         IN  textStr[first].value
    ELSE 0

IdMatchesAnyNode(monitorId, nodeId) == TRUE

\* a node id matches a monitor node: exactly, or within 2
IdMatches(monitorId, nodeId) ==
    LET idDiff == IF monitorId > nodeId THEN monitorId - nodeId
                  ELSE nodeId - monitorId
    IN  monitorId = nodeId \/ idDiff <= 2

\* the mockData the second "executed" listener parses out of the text;
\* tempDraw is its Math.floor(Math.random() * 25)
ExecutedData(textStr, tempDraw) ==
    LET available   == includes(textStr, "GPU Statistics")
        temperature == extractNumber(textStr, "Temperature")
    IN  [timestamp |-> now,
         gpu |-> [available    |-> available,
                  utilization  |-> extractNumber(textStr, "Utilization"),
                  memory_used  |-> 0,
                  memory_total |-> 0,
                  temperature  |-> IF temperature = 0 /\ available
                                   THEN MockTemperature(tempDraw)
                                   ELSE temperature],
         system |-> [available   |-> includes(textStr, "System Statistics"),
                     cpu_percent |-> extractNumber(textStr, "CPU Usage"),
                     ram_used    |-> 0,
                     ram_total   |-> 0]]

\* the second "executed" listener passes the output on to the node
ExecutedIngests(self, id, output) ==
    /\ self # Null
    /\ self.registered
    /\ IdMatches(self.id, id)
    /\ output # Null

\* an "executed" event of node id with the output output: the first
\* listener (unit-end, then addCompletedNode on every registered node),
\* then the second; tempDraw serves the listener's temperature and then
\* updateResourceData's
Executed(id, output, r, tempDraw) ==
    /\ UnitEndCorrelator(id, r)
    /\ LET listed == IF /\ monitor # Null
                        /\ monitor.registered
                        /\ MapHas(kikoStatsActiveNodes, id)
                     THEN addCompletedNode(monitor, kikoStatsCompletedNodes')
                     ELSE monitor
       IN  IF ExecutedIngests(listed, id, output)
           THEN LET mockData == ExecutedData(output, tempDraw)
                    fed      == updateMonitoringData(listed, mockData, tempDraw,
                                                     kikoStatsCompletedNodes')
                IN  /\ monitor' = Settled(fed)
                    /\ ingested' = Append(ingested, Written(fed, "executed"))
                    /\ delivered' = Delivered("executed", mockData, tempDraw, fed.threw)
           ELSE /\ monitor' = listed
                /\ UNCHANGED <<ingested, delivered>>
    /\ UNCHANGED <<intervals, intervalSeq, localStorage, ResizeObserver, Chart>>

\* an "executed" event without a text output
UnitEnd(id, r) == Executed(id, Null, r, 0)

\* the "kikostats.node_complete" listener: it calls addNodeMetric on the
\* registered nodes that have such a method, and no node has one
NodeComplete(metrics) ==
    /\ lastEvent' = [type |-> "node-complete", id |-> metrics.node_id, produced |-> 0]
    /\ UNCHANGED <<now, correlatorVars, monitorVars>>

\* the "kikostats.workflow_complete" listener: setWorkflowExecutionTime on
\* every registered node, which leaves the list update to the next frame
WorkflowComplete(totalSeconds) ==
    /\ monitor' = IF monitor # Null /\ monitor.registered
                  THEN [monitor EXCEPT
                           !.totalWorkflowExecutionTime = [seconds |-> totalSeconds],
                           !.listFramePending = TRUE]
                  ELSE monitor
    /\ lastEvent' = [type |-> "workflow-complete", id |-> 0, produced |-> 0]
    /\ UNCHANGED <<now, correlatorVars, ingested, delivered, intervals,
                   intervalSeq, localStorage, ResizeObserver, Chart>>

\* an animation frame: the callbacks requested since the last one run, that
\* of updateNodeList (calculateAndSetNodeSize) and that of
\* setWorkflowExecutionTime (updateNodeList, which may request the next
\* frame)
AnimationFrame ==
    /\ monitor # Null
    /\ monitor.listFramePending \/ monitor.sizeFramePending
    /\ LET sized == IF monitor.sizeFramePending
                    THEN calculateAndSetNodeSize(
                             [monitor EXCEPT !.sizeFramePending = FALSE],
                             kikoStatsCompletedNodes)
                    ELSE monitor
       IN  monitor' = IF monitor.listFramePending
                      THEN updateNodeList([sized EXCEPT !.listFramePending = FALSE],
                                          kikoStatsCompletedNodes,
                                          kikoStatsCompletedNodes)
                      ELSE sized
    /\ lastEvent' = [type |-> "animation-frame", id |-> 0, produced |-> 0]
    /\ UNCHANGED <<now, correlatorVars, ingested, delivered, intervals,
                   intervalSeq, localStorage, ResizeObserver, Chart>>

\* the browser lays the page out again: the #nodeList element gets the
\* offsetTop and scrollHeight of layout
Reflow(layout) ==
    /\ monitor # Null
    /\ monitor.container
    /\ monitor.layout # layout
    /\ monitor' = [monitor EXCEPT !.layout = layout]
    /\ lastEvent' = [type |-> "reflow", id |-> 0, produced |-> 0]
    /\ UNCHANGED <<now, correlatorVars, ingested, delivered, intervals,
                   intervalSeq, localStorage, ResizeObserver, Chart>>

-----------------------------------------------------------------------------
(* The state once setup() has run.                                         *)

InitCorrelator ==
    /\ now = 0
    /\ kikoStatsActiveNodes = <<>>
    /\ kikoStatsCompletedNodes = <<>>
    /\ lastEvent = [type |-> "none", id |-> 0, produced |-> 0]
    /\ emitted = <<>>
    /\ sinceRunEnd = [starts |-> 0, ids |-> {}, endSeen |-> FALSE]
    /\ startTimes = [u \in Units |-> NoStart]

\* no ResourceMonitor node has been created yet: window.resourceMonitorNodes = []
InitMonitor ==
    /\ monitor = Null
    /\ ingested = <<>>
    /\ delivered = Delivered("none", Null, 0, FALSE)
    /\ intervals = {}
    /\ intervalSeq = 0

\* nothing is stored under 'kikoStats_settings'; the browser has
\* ResizeObserver, and setup() has loaded Chart.js
Init ==
    /\ InitCorrelator
    /\ InitMonitor
    /\ localStorage = Null
    /\ ResizeObserver = TRUE
    /\ Chart = TRUE

(* Spec: the host's lifecycle events in any order, the clock moving        *)
(* between them.                                                           *)

Next ==
    \/ \E id \in Units :
          /\ sinceRunEnd.starts < MaxStarts
          /\ UnitStart(id)
    \/ \E id \in Units, r \in CorrelatorDraws :
          /\ MapHas(kikoStatsActiveNodes, id) => Len(emitted) < MaxProduced
          /\ UnitEnd(id, r)
    \/ \E rs \in [1..Len(kikoStatsActiveNodes) -> CorrelatorDraws] :
          /\ Len(emitted) + Len(kikoStatsActiveNodes) <= MaxProduced
          /\ RunEnd(rs)
    \/ /\ now < MaxClockSteps * ClockStepMs
       /\ AdvanceClock

Spec == Init /\ [][Next]_vars


(* SpecLog: one node run again and again, the clock standing still, long   *)
(* enough for the completed log to overflow.                               *)

LogUnits == {1}

LogDraws == { Draws(0, 500, 500, 500, 500, 500, 500) }

NextLog ==
    \/ \E id \in LogUnits :
          /\ sinceRunEnd.starts < MaxStarts
          /\ UnitStart(id)
    \/ \E id \in LogUnits, r \in LogDraws :
          /\ MapHas(kikoStatsActiveNodes, id) => Len(emitted) < MaxLogProduced
          /\ UnitEnd(id, r)
    \/ \E rs \in [1..Len(kikoStatsActiveNodes) -> LogDraws] :
          /\ Len(emitted) + Len(kikoStatsActiveNodes) <= MaxLogProduced
          /\ RunEnd(rs)

SpecLog == Init /\ [][NextLog]_vars

(* SpecFlush: the completed log is first filled by FlushWarmUp runs of     *)
(* unit 1 alone (unit-start, run-end); then both units are started, some   *)
(* of them twice, and flushed by run-ends until the log overflows, unit 1  *)
(* also ending by its own unit-end.  The clock stands still.               *)

WarmingUp == Len(emitted) < FlushWarmUp

NextFlush ==
    \/ \E id \in Units :
          /\ IF WarmingUp
             THEN id = 1 /\ kikoStatsActiveNodes = <<>>
             ELSE sinceRunEnd.starts < MaxFlushStarts
          /\ UnitStart(id)
    \/ \E id \in LogUnits, r \in LogDraws :
          /\ ~WarmingUp
          /\ MapHas(kikoStatsActiveNodes, id) => Len(emitted) < MaxFlushProduced
          /\ UnitEnd(id, r)
    \/ \E rs \in [1..Len(kikoStatsActiveNodes) -> LogDraws] :
          /\ WarmingUp => kikoStatsActiveNodes # <<>>
          /\ Len(emitted) + Len(kikoStatsActiveNodes) <= MaxFlushProduced
          /\ RunEnd(rs)

SpecFlush == Init /\ [][NextFlush]_vars

-----------------------------------------------------------------------------
(* Helpers of the properties.                                              *)

\* the last n elements of s
LastN(s, n) == [i \in 1..n |-> s[Len(s) - n + i]]

\* the records of s that belong to unit u
CountFor(s, u) == Cardinality({i \in 1..Len(s) : s[i].node_id = u})

IsActive(u) == MapHas(kikoStatsActiveNodes, u)

\* the records the step has pushed
NewRecords == [i \in 1..(Len(emitted') - Len(emitted)) |-> emitted'[Len(emitted) + i]]

\* a step in which a listener runs: the clock stands still meanwhile
EventStep == now' = now

\* a step that handles a run-end while units are active
RunEndStep ==
    /\ EventStep
    /\ lastEvent'.type = "run-end"
    /\ kikoStatsActiveNodes # <<>>

\* a step that handles the unit-end of the active unit u
UnitEndStep(u) ==
    /\ EventStep
    /\ IsActive(u)
    /\ lastEvent'.type = "unit-end"
    /\ lastEvent'.id = u

\* a step that handles the unit-end of a unit that is not active
UnknownUnitEndStep ==
    /\ EventStep
    /\ lastEvent'.type = "unit-end"
    /\ ~IsActive(lastEvent'.id)

-----------------------------------------------------------------------------
(* C1: the completed log never holds more than 10 records, and it is the   *)
(* last min(n, 10) of the n records produced so far, oldest first.         *)
C1_BoundedLog ==
    /\ Len(kikoStatsCompletedNodes) <= MaxCompleted
    /\ kikoStatsCompletedNodes = LastN(emitted, Min(Len(emitted), MaxCompleted))

\* more than 10 records produced, by unit-end and by run-end, the evicted
\* oldest differing from the oldest kept
C1_Witness ==
    /\ Len(emitted) > MaxCompleted
    /\ emitted[1] # kikoStatsCompletedNodes[1]
    /\ \E i, j \in 1..Len(kikoStatsCompletedNodes) :
          /\ kikoStatsCompletedNodes[i].duration_ms = 0
          /\ kikoStatsCompletedNodes[j].duration_ms >= 1000

(* C2: a unit that is in the active set leaves it only by its own unit-end *)
(* or by a run-end, exactly one record of that unit is produced in that    *)
(* step, and no record of a unit is produced in any other step.            *)
C2_ExactlyOnce ==
    [][\A u \in Units :
          LET was    == IsActive(u)
              is     == MapHas(kikoStatsActiveNodes', u)
              gained == CountFor(emitted', u) - CountFor(emitted, u)
          IN  /\ (was /\ ~is) =>
                    /\ gained = 1
                    /\ \/ lastEvent'.type = "run-end"
                       \/ lastEvent'.type = "unit-end" /\ lastEvent'.id = u
              /\ ~(was /\ ~is) => gained = 0
              /\ UnitEndStep(u) => ~is
              /\ (was /\ RunEndStep) => ~is
      ]_vars

\* a run-end has just completed one unit after the unit-end of another
C2_Witness ==
    /\ lastEvent.type = "run-end"
    /\ lastEvent.produced = 1
    /\ Len(emitted) = 2
    /\ emitted[1].node_id # emitted[2].node_id
    /\ kikoStatsActiveNodes = <<>>

(* C3 as claimed: k unit-start events, then a run-end with no unit-end in  *)
(* between, make the completed log grow by k entries.                      *)
C3_AsClaimed ==
    [][(RunEndStep /\ ~sinceRunEnd.endSeen) =>
          Len(kikoStatsCompletedNodes') =
              Len(kikoStatsCompletedNodes) + sinceRunEnd.starts
      ]_vars

(* C3 as amended: unit-start events for k distinct unit ids, then a        *)
(* run-end with no unit-end in between, produce exactly k records, one per *)
(* id, and the completed log is the last 10 of the old log followed by     *)
(* them.                                                                   *)
C3_NoStartedUnitLost ==
    [][(RunEndStep /\ ~sinceRunEnd.endSeen) =>
          LET k == Cardinality(sinceRunEnd.ids)
          IN  /\ Len(NewRecords) = k
              /\ \A u \in sinceRunEnd.ids :
                    Cardinality({i \in 1..k : NewRecords[i].node_id = u}) = 1
              /\ Len(kikoStatsCompletedNodes') =
                    Min(Len(kikoStatsCompletedNodes) + k, MaxCompleted)
              /\ \A i \in 1..Min(k, MaxCompleted) :
                    kikoStatsCompletedNodes'[Len(kikoStatsCompletedNodes') - i + 1]
                        = NewRecords[k - i + 1]
              /\ LET all  == kikoStatsCompletedNodes \o NewRecords
                     drop == Max(Len(all) - MaxCompleted, 0)
                 IN  kikoStatsCompletedNodes' = SubSeq(all, drop + 1, Len(all))
      ]_vars

\* a run-end has just flushed two units into a log that held nine records:
\* the log is full again and its oldest record has been evicted
C3_Witness ==
    /\ lastEvent.type = "run-end"
    /\ lastEvent.produced = 2
    /\ Len(emitted) = MaxCompleted + 1
    /\ Len(kikoStatsCompletedNodes) = MaxCompleted
    /\ kikoStatsCompletedNodes = SubSeq(emitted, 2, Len(emitted))
    /\ emitted[Len(emitted)].node_id # emitted[Len(emitted) - 1].node_id

(* C6: the active map holds at most one entry per unit id, and the         *)
(* unit-end of an active unit produces exactly one record, whose           *)
(* duration_ms is the time of the unit-end minus the time of the latest    *)
(* unit-start of that unit.                                                *)
C6_LastStartWins ==
    /\ [](\A i, j \in 1..Len(kikoStatsActiveNodes) :
             kikoStatsActiveNodes[i].nodeId = kikoStatsActiveNodes[j].nodeId => i = j)
    /\ [][\A u \in Units :
             UnitEndStep(u) =>
                /\ Len(NewRecords) = 1
                /\ NewRecords[1].node_id = u
                /\ NewRecords[1].duration_ms = now - startTimes[u].latest
         ]_vars

\* a unit started at two different times has just ended, after the second
\* start
C6_Witness ==
    /\ lastEvent.type = "unit-end"
    /\ lastEvent.produced = 1
    /\ startTimes[lastEvent.id].first < startTimes[lastEvent.id].latest
    /\ startTimes[lastEvent.id].latest < now
    /\ emitted[Len(emitted)].node_id = lastEvent.id
    /\ emitted[Len(emitted)].duration_ms = now - startTimes[lastEvent.id].latest
    /\ CountFor(emitted, lastEvent.id) = 1

(* C7: the unit-end of a unit that is not active changes neither the       *)
(* active map nor the completed log, and produces no record.               *)
C7_UnknownUnitEnd ==
    [][UnknownUnitEndStep =>
          /\ UNCHANGED <<kikoStatsActiveNodes, kikoStatsCompletedNodes, emitted>>
          /\ lastEvent'.produced = 0
      ]_vars

\* a second unit-end of a completed unit has been ignored while another
\* unit is active
C7_Witness ==
    /\ lastEvent.type = "unit-end"
    /\ lastEvent.produced = 0
    /\ CountFor(emitted, lastEvent.id) = 1
    /\ ~IsActive(lastEvent.id)
    /\ kikoStatsActiveNodes # <<>>
    /\ kikoStatsCompletedNodes = emitted

(* C8: once a run-end has been handled the active map is empty.            *)
C8_RunEndClears ==
    lastEvent.type = "run-end" => kikoStatsActiveNodes = <<>>

\* a run-end has just met two active units
C8_Witness ==
    /\ lastEvent.type = "run-end"
    /\ lastEvent.produced = 2
    /\ kikoStatsActiveNodes = <<>>

(* C9 as claimed: the record a run-end produces for an active unit has the *)
(* duration run-end time minus the unit's startTime.                       *)
C9_AsClaimed ==
    [][RunEndStep =>
          \A i \in 1..Len(kikoStatsActiveNodes) :
             NewRecords[i].duration_ms = now - kikoStatsActiveNodes[i].startTime
      ]_vars

(* C10 as claimed: a unit that has completed and left the active set is    *)
(* never in the active set again.                                          *)
C10_AsClaimed ==
    [][\A u \in Units :
          (CountFor(emitted, u) > 0 /\ ~IsActive(u)) =>
              ~MapHas(kikoStatsActiveNodes', u)
      ]_vars

(* C10 as amended: a unit that is not active, completed or not, enters the *)
(* active set only by a unit-start event for its own id, and then with     *)
(* startTime the time of that event.                                       *)
C10_ReentryOnlyByStart ==
    [][\A u \in Units :
          (~IsActive(u) /\ MapHas(kikoStatsActiveNodes', u)) =>
              /\ lastEvent' = [type |-> "unit-start", id |-> u, produced |-> 0]
              /\ MapGet(kikoStatsActiveNodes', u).startTime = now
      ]_vars

\* a completed unit is active again, with a later start
C10_Witness ==
    \E u \in Units :
       /\ CountFor(emitted, u) = 1
       /\ IsActive(u)
       /\ MapGet(kikoStatsActiveNodes, u).startTime > 0
       /\ lastEvent.type = "unit-start"

-----------------------------------------------------------------------------
(* SpecRing: one node is created and then fed the sample stream RingSample *)
(* by "kikostats.monitor" events, its timer firing in between.             *)

\* the n-th sample of the stream: every metric carries a value that
\* depends on n; some samples lack a section, report it unavailable, report
\* 0 degrees or no total, and every 25th is null
RingSample(n) ==
    IF n % 25 = 0 THEN Null
    ELSE [gpu    |-> IF n % 10 = 3 THEN Null
                     ELSE [available    |-> n % 10 # 7,
                           utilization  |-> (3 * n) % 101,
                           memory_used  |-> 64 * n,
                           memory_total |-> IF n % 16 = 1 THEN 0 ELSE 8192,
                           temperature  |-> IF n % 9 = 0 THEN 0 ELSE 20 + (n % 67)],
          system |-> IF n % 14 = 5 THEN Null
                     ELSE [available   |-> n % 14 # 9,
                           cpu_percent |-> n % 101,
                           ram_used    |-> 100 * n,
                           ram_total   |-> 16384],
          timestamp |-> n]

RingTempDraws == {12}

RingStatsDraws == { StatsDraws(3, 7, 11, 13, 17) }

TimerTicksSoFar == Cardinality({i \in 1..Len(ingested) : ingested[i].by = "timer"})

NextRing ==
    \/ OnNodeCreated
    \/ \E tempDraw \in RingTempDraws :
          /\ monitor # Null
          /\ Len(ingested) < MaxSamples
          /\ MonitorEvent(RingSample(Len(ingested) + 1), tempDraw)
    \/ \E t \in intervals, d \in RingStatsDraws, tempDraw \in RingTempDraws :
          /\ Len(ingested) < MaxSamples
          /\ TimerTicksSoFar < MaxTimerTicks
          /\ TimerTick(t, d, tempDraw)

SpecRing == Init /\ [][NextRing]_vars

\* the five ring values of slot i
Slot(self, i) ==
    [cpu  |-> self.cpuHistory[i],
     gpu  |-> self.gpuHistory[i],
     vram |-> self.vramHistory[i],
     ram  |-> self.ramHistory[i],
     temp |-> self.tempHistory[i]]

\* the five values of the n-th ingestion
Ingested(n) ==
    [cpu  |-> ingested[n].cpu,
     gpu  |-> ingested[n].gpu,
     vram |-> ingested[n].vram,
     ram  |-> ingested[n].ram,
     temp |-> ingested[n].temp]

ZeroSlot == [cpu |-> 0, gpu |-> 0, vram |-> 0, ram |-> 0, temp |-> 0]

(* C4: after N ingestions on a new node historyIndex is N mod 60, the j-th *)
(* most recent ingestion is at slot (N - j) mod 60 of each of the five     *)
(* rings for j up to min(N, 60), the other slots are still 0, and a step   *)
(* leaves the cursor or moves it forward by one modulo 60.                 *)
C4_RingHoldsLast60 ==
    /\ [](monitor # Null =>
            LET N == Len(ingested)
            IN  /\ monitor.historyIndex = N % HistoryLen
                /\ \A j \in 1..Min(N, HistoryLen) :
                      Slot(monitor, (N - j) % HistoryLen) = Ingested(N - j + 1)
                /\ \A i \in 0..(HistoryLen - 1) :
                      i >= N => Slot(monitor, i) = ZeroSlot)
    /\ [][(monitor # Null /\ monitor' # Null) =>
             \/ monitor'.historyIndex = monitor.historyIndex
             \/ monitor'.historyIndex = (monitor.historyIndex + 1) % HistoryLen
         ]_vars

\* the rings have wrapped twice, a timer tick among the ingestions, and
\* slot 0 holds other values than it held one lap before
C4_Witness ==
    /\ monitor # Null
    /\ Len(ingested) = 2 * HistoryLen + 5
    /\ monitor.historyIndex = 5
    /\ TimerTicksSoFar = 1
    /\ Ingested(2 * HistoryLen + 1) # Ingested(HistoryLen + 1)
    /\ Slot(monitor, 0) = Ingested(2 * HistoryLen + 1)

(* C5: the values at slot i of the five rings come from one and the same   *)
(* ingestion, or are all still the initial 0.                              *)
C5_SlotsInStep ==
    monitor # Null =>
       \A i \in 0..(HistoryLen - 1) :
          \/ \E lap \in 0..(Len(ingested) \div HistoryLen) :
                LET n == lap * HistoryLen + i + 1
                IN  /\ n <= Len(ingested)
                    /\ Slot(monitor, i) = Ingested(n)
          \/ /\ i >= Len(ingested)
             /\ Slot(monitor, i) = ZeroSlot

\* the rings are partly filled: a written slot with five non-zero values
\* next to slots never written
C5_Witness ==
    /\ monitor # Null
    /\ Len(ingested) = 30
    /\ \E i \in 0..29 :
          /\ Slot(monitor, i).cpu > 0
          /\ Slot(monitor, i).gpu > 0
          /\ Slot(monitor, i).vram > 0
          /\ Slot(monitor, i).ram > 0
          /\ Slot(monitor, i).temp > 0
    /\ Slot(monitor, 30) = ZeroSlot

-----------------------------------------------------------------------------
(* SpecIngest: one node is created and is then handed samples of every     *)
(* shape, pushed by "kikostats.monitor" events or pulled by its timer.     *)

GpuFull(available, utilization, used, total, temperature) ==
    [available |-> available, utilization |-> utilization, memory_used |-> used,
     memory_total |-> total, temperature |-> temperature]

SystemFull(available, cpu, used, total) ==
    [available |-> available, cpu_percent |-> cpu, ram_used |-> used,
     ram_total |-> total]

IngestSamples ==
    { Null,
      [timestamp |-> 1],
      [gpu |-> GpuFull(TRUE, 55, 1024, 8192, 60), timestamp |-> 1],
      [system |-> SystemFull(TRUE, 42, 4096, 16384), timestamp |-> 1],
      [gpu |-> Null, system |-> Null, timestamp |-> 1],
      [gpu |-> GpuFull(TRUE, 55, 1024, 8192, 60),
       system |-> SystemFull(TRUE, 42, 4096, 16384), timestamp |-> 1],
      [gpu |-> GpuFull(TRUE, 30, 1, 8, 95),
       system |-> SystemFull(TRUE, 7, 3, 8), timestamp |-> 1],
      [gpu |-> GpuFull(TRUE, 30, 512, 0, 0),
       system |-> SystemFull(TRUE, 7, 100, 0), timestamp |-> 1],
      [gpu |-> [available |-> TRUE, utilization |-> 30, memory_used |-> 512],
       system |-> [available |-> TRUE, cpu_percent |-> 7, ram_used |-> 100],
       timestamp |-> 1],
      [gpu |-> [available |-> TRUE, memory_used |-> 29, memory_total |-> 200],
       system |-> [available |-> TRUE, ram_used |-> 2, ram_total |-> 3],
       timestamp |-> 1],
      [gpu |-> GpuFull(FALSE, 55, 3000, 8192, 50),
       system |-> SystemFull(FALSE, 42, 4096, 16384), timestamp |-> 1],
      [gpu |-> GpuFull(FALSE, 0, 0, 0, 0),
       system |-> SystemFull(TRUE, 42, 4096, 16384), timestamp |-> 1],
      [gpu |-> [utilization |-> 55, temperature |-> 0],
       system |-> [available |-> FALSE], timestamp |-> 1] }

IngestTempDraws == {0, 24}

IngestStatsDraws == { StatsDraws(0, 0, 0, 0, 0), StatsDraws(24, 39, 59, 3999, 7999) }

NextIngest ==
    \/ OnNodeCreated
    \/ \E data \in IngestSamples, tempDraw \in IngestTempDraws :
          /\ Len(ingested) < MaxIngestions
          /\ MonitorEvent(data, tempDraw)
    \/ \E t \in intervals, d \in IngestStatsDraws, tempDraw \in IngestTempDraws :
          /\ Len(ingested) < MaxIngestions
          /\ TimerTick(t, d, tempDraw)

SpecIngest == Init /\ [][NextIngest]_vars

\* the five metric records of a snapshot
MetricsOf(current) ==
    [cpu |-> current.cpu, gpu |-> current.gpu, vram |-> current.vram,
     ram |-> current.ram, temp |-> current.temp]

\* an ingestion has taken place and its sample is delivered.data
Ingesting == monitor # Null /\ delivered.by # "none"

(* C11 as claimed: after an ingestion the five metric records of the       *)
(* snapshot are a function of the ingested sample alone: they are what a   *)
(* new node computes from that sample, whatever was ingested before and    *)
(* whatever is drawn while ingesting; a system section available with      *)
(* cpu_percent 42 gives cpu = {value: 42, available: true}.                *)
C11_AsClaimed ==
    Ingesting =>
       /\ MetricsOf(monitor.currentResourceData) =
             MetricsOf(updateResourceData(NewMonitorNode, delivered.data, 0)
                          .currentResourceData)
       /\ LET system == SectionOf(delivered.data, "system")
          IN  (Available(system) /\ Field(system, "cpu_percent") = 42) =>
                 monitor.currentResourceData.cpu = [value |-> 42, available |-> TRUE]

(* C12 as claimed: after an ingestion vram.percent and ram.percent are     *)
(* used / total * 100 rounded to the nearest integer, halves up, for every *)
(* used and total, and 0 when the total is 0 or missing.                   *)
C12_AsClaimed ==
    Ingesting =>
       \A m \in {"vram", "ram"} :
          LET section == IF m = "vram" THEN SectionOf(delivered.data, "gpu")
                         ELSE SectionOf(delivered.data, "system")
              used    == Field(section, IF m = "vram" THEN "memory_used" ELSE "ram_used")
              total   == Field(section, IF m = "vram" THEN "memory_total" ELSE "ram_total")
              p       == monitor.currentResourceData[m].percent
          IN  /\ monitor.currentResourceData[m].value = p
              /\ total = 0 => p = 0
              /\ total > 0 => /\ 2 * total * p - total <= 200 * used
                              /\ 200 * used < 2 * total * p + total

(* C12: after an ingestion vram.percent and ram.percent are 0 when the     *)
(* sample's total is 0 or missing, and otherwise an integer within one     *)
(* half of used / total * 100: the nearest integer, and either neighbour   *)
(* when the exact value lies halfway between two integers; 1024 of 8192    *)
(* gives 13.                                                               *)
C12_PercentNearest ==
    Ingesting =>
       \A m \in {"vram", "ram"} :
          LET section == IF m = "vram" THEN SectionOf(delivered.data, "gpu")
                         ELSE SectionOf(delivered.data, "system")
              used    == Field(section, IF m = "vram" THEN "memory_used" ELSE "ram_used")
              total   == Field(section, IF m = "vram" THEN "memory_total" ELSE "ram_total")
              p       == monitor.currentResourceData[m].percent
          IN  /\ monitor.currentResourceData[m].value = p
              /\ total = 0 => p = 0
              /\ total > 0 => /\ 2 * total * p - total <= 200 * used
                              /\ 200 * used <= 2 * total * p + total
              /\ (used = 1024 /\ total = 8192) => p = 13

\* 1024 of 8192 gave 13; then 29 of 200 (14.5) gave 14 and 2 of 3 gave 67
C12_Witness ==
    /\ Ingesting
    /\ Len(ingested) = 2
    /\ ingested[1].vram = 13
    /\ Field(SectionOf(delivered.data, "gpu"), "memory_used") = 29
    /\ Field(SectionOf(delivered.data, "gpu"), "memory_total") = 200
    /\ monitor.currentResourceData.vram.percent = 14
    /\ monitor.currentResourceData.ram.percent = 67

(* C13 as claimed: after an ingestion a metric record whose available flag *)
(* is false carries only zeros: cpu and gpu value 0, vram and ram used and *)
(* percent 0, temperature value and percent 0.                             *)
C13_AsClaimed ==
    Ingesting =>
       LET c == monitor.currentResourceData
       IN  /\ ~c.cpu.available => c.cpu.value = 0
           /\ ~c.gpu.available => c.gpu.value = 0
           /\ ~c.vram.available => c.vram.used = 0 /\ c.vram.percent = 0
           /\ ~c.ram.available => c.ram.used = 0 /\ c.ram.percent = 0
           /\ ~c.temp.available => c.temp.value = 0 /\ c.temp.percent = 0

\* the sample is null, empty, or lacks its gpu or its system section
LacksASection(data) ==
    \/ SectionOf(data, "gpu") = Null
    \/ SectionOf(data, "system") = Null

(* C14 as claimed: ingesting a sample that is null, empty or lacks its gpu *)
(* or system section does not throw, marks the metrics of the missing      *)
(* section unavailable, writes one slot of each ring and advances the      *)
(* cursor by one.                                                          *)
C14_AsClaimed ==
    /\ [](Ingesting /\ LacksASection(delivered.data) =>
             /\ ~delivered.threw
             /\ SectionOf(delivered.data, "gpu") = Null =>
                   /\ ~monitor.currentResourceData.gpu.available
                   /\ ~monitor.currentResourceData.vram.available
                   /\ ~monitor.currentResourceData.temp.available
             /\ SectionOf(delivered.data, "system") = Null =>
                   /\ ~monitor.currentResourceData.cpu.available
                   /\ ~monitor.currentResourceData.ram.available)
    /\ [][(monitor # Null /\ ingested' # ingested) =>
             /\ Len(ingested') = Len(ingested) + 1
             /\ monitor'.historyIndex = (monitor.historyIndex + 1) % HistoryLen
         ]_vars

(* C17 as claimed: the once-per-second updateChart poll, with its call of  *)
(* getResourceStats, changes neither the snapshot nor the rings nor the    *)
(* cursor nor the stored latest sample.                                    *)
C17_AsClaimed ==
    [][(monitor # Null /\ lastEvent'.type = "timer" /\ delivered' # delivered) =>
          monitor' = monitor
      ]_vars

(* C22 as claimed: while no sample has been received from the             *)
(* "kikostats.monitor" event or from an executed output, every metric of   *)
(* the snapshot is 0 and unavailable and every slot of the five rings is   *)
(* 0: the timer's ticks alone bring in no values.                          *)
C22_AsClaimed ==
    (monitor # Null /\ \A n \in 1..Len(ingested) : ingested[n].by = "timer") =>
        /\ \A k \in {"cpu", "gpu", "vram", "ram", "temp"} :
              /\ monitor.currentResourceData[k].value = 0
              /\ ~monitor.currentResourceData[k].available
        /\ \A i \in DOMAIN monitor.cpuHistory : Slot(monitor, i) = ZeroSlot

(* C24 as claimed: a sample whose gpu section is unavailable and reports   *)
(* temperature 0 never gets a fabricated temperature, whether it is        *)
(* ingested as it arrives or, once stored, by the timer's poll: the        *)
(* snapshot's temperature stays 0.                                         *)
C24_AsClaimed ==
    [][(monitor # Null /\ ingested' # ingested) =>
          LET sample == IF lastEvent'.type = "timer" /\ HasMonitorData(monitor)
                        THEN monitor.latestMonitorData
                        ELSE delivered'.data
              gpu    == SectionOf(sample, "gpu")
          IN  (~Available(gpu) /\ Field(gpu, "temperature") = 0) =>
                  monitor'.currentResourceData.temp.value = 0
      ]_vars

-----------------------------------------------------------------------------
(* SpecPanel: the page opens with any item under 'kikoStats_settings'; one *)
(* node is created, samples arrive, its timer ticks, the user saves        *)
(* settings and resizes the node.                                          *)

PanelNames == {"cpu", "gpu", "vram", "ram", "temp"}

StoredItems ==
    { Null,
      StoredItem("blocked", Null),
      StoredItem("empty", Null),
      StoredItem("garbage", Null),
      StoredItem("json", Null),
      StoredItem("json", [other |-> JNumber(1)]),
      StoredItem("json", [displayMode |-> JString("individual")]),
      StoredItem("json",
                 [enabledPanels |-> JArray(<<"gpu", "cpu">>),
                  panelOrder |-> JArray(<<"gpu", "cpu", "vram", "ram", "temp">>)]),
      StoredItem("json", [displayMode |-> JString(""), enabledPanels |-> JArray(<<>>)]),
      StoredItem("json", [displayMode |-> JString("individual"),
                          enabledPanels |-> JNull, panelOrder |-> JNumber(0)]),
      StoredItem("json", [displayMode |-> JString("stacked"),
                          enabledPanels |-> JArray(<<"disk">>),
                          panelOrder |-> JArray(<<"disk", "cpu">>)]),
      StoredItem("json", [enabledPanels |-> JNumber(1)]),
      StoredItem("json", [displayMode |-> JString("individual"),
                          panelOrder |-> JString("cpu")]) }

\* the node may be created before setup() has loaded Chart.js
InitPanel ==
    /\ InitCorrelator
    /\ InitMonitor
    /\ localStorage \in StoredItems
    /\ ResizeObserver = TRUE
    /\ Chart \in BOOLEAN

PanelSamples ==
    { [gpu |-> GpuFull(TRUE, 55, 1024, 8192, 60),
       system |-> SystemFull(TRUE, 42, 4096, 16384), timestamp |-> 1] }

PanelTempDraws == {12}

PanelStatsDraws == { StatsDraws(3, 7, 11, 13, 17) }

\* the panel items of the settings modal, in template order or dragged
PanelOrders == { DefaultPanels, <<"temp", "cpu", "gpu", "vram", "ram">> }

\* the panels whose checkbox is ticked
PanelChecks == { PanelNames, {"cpu", "temp"}, {} }

NextPanel ==
    \/ OnNodeCreated
    \/ \E d \in PanelStatsDraws, tempDraw \in PanelTempDraws :
          /\ Len(ingested) < MaxPanelIngestions
          /\ InitialDraw(d, tempDraw)
    \/ \E data \in PanelSamples, tempDraw \in PanelTempDraws :
          /\ monitor # Null
          /\ Len(ingested) < MaxPanelIngestions
          /\ MonitorEvent(data, tempDraw)
    \/ \E t \in intervals, d \in PanelStatsDraws, tempDraw \in PanelTempDraws :
          /\ Len(ingested) < MaxPanelIngestions
          /\ TimerTick(t, d, tempDraw)
    \/ \E selectedMode \in {"combined", "individual"}, panels \in PanelOrders,
          checked \in PanelChecks, storeOk \in BOOLEAN,
          d \in PanelStatsDraws, tempDraw \in PanelTempDraws :
          /\ Len(ingested) < MaxPanelIngestions
          /\ SaveSettings(selectedMode, panels, checked, storeOk, d, tempDraw)
    \/ ResizeDebounced

SpecPanel == InitPanel /\ [][NextPanel]_vars

\* the rings, the cursor and the snapshot of a node
EngineState(self) ==
    [cpuHistory |-> self.cpuHistory, gpuHistory |-> self.gpuHistory,
     vramHistory |-> self.vramHistory, ramHistory |-> self.ramHistory,
     tempHistory |-> self.tempHistory, historyIndex |-> self.historyIndex,
     currentResourceData |-> self.currentResourceData]

(* C16 as claimed: restarting the timer and rebuilding the interface leave *)
(* the rings, the cursor, the snapshot and the completed log unchanged.    *)
C16_AsClaimed ==
    [][(monitor # Null /\ EventStep /\
        lastEvent'.type \in {"resize", "save-settings", "initial-draw"}) =>
          /\ EngineState(monitor') = EngineState(monitor)
          /\ kikoStatsCompletedNodes' = kikoStatsCompletedNodes
      ]_vars

(* C18 as claimed: every ingestion writes a slot of all five rings         *)
(* whatever the display settings are, and a settings save or load leaves   *)
(* the rings, the cursor and the snapshot as they were.                    *)
C18_AsClaimed ==
    /\ [](monitor # Null =>
            \A n \in 1..Len(ingested) :
               Slot(monitor, (n - 1) % HistoryLen) = Ingested(n))
    /\ [][(monitor # Null /\ EventStep /\ lastEvent'.type = "save-settings") =>
             EngineState(monitor') = EngineState(monitor)
         ]_vars

\* loadSettings has just run on the stored item: the node has been created
LoadStep == monitor = Null /\ monitor' # Null

\* the stored item parses to an object
ParsesToObject(item) == item # Null /\ item.kind = "json" /\ item.value # Null

(* C19 as claimed: loadSettings yields combined mode, all five panels and  *)
(* the canonical order when the item is absent or unparsable, and for a    *)
(* stored record each key it lacks gets its default while each key it has  *)
(* keeps the stored value.                                                 *)
C19_AsClaimed ==
    [][LoadStep =>
          LET item == localStorage
          IN  /\ ~ParsesToObject(item) =>
                    /\ monitor'.displayMode = Combined
                    /\ monitor'.enabledPanels = JArray(DefaultPanels)
                    /\ monitor'.panelOrder = JArray(DefaultPanels)
              /\ ParsesToObject(item) =>
                    /\ IF "displayMode" \in DOMAIN item.value
                       THEN monitor'.displayMode = item.value.displayMode
                       ELSE monitor'.displayMode = Combined
                    /\ IF "enabledPanels" \in DOMAIN item.value
                       THEN monitor'.enabledPanels = item.value.enabledPanels
                       ELSE monitor'.enabledPanels = JArray(DefaultPanels)
                    /\ IF "panelOrder" \in DOMAIN item.value
                       THEN monitor'.panelOrder = item.value.panelOrder
                       ELSE monitor'.panelOrder = JArray(DefaultPanels)
      ]_vars

\* the stored object has the key and its value is not falsy
HoldsTruthy(item, key) == key \in DOMAIN item.value /\ Truthy(item.value[key])

(* C19 as amended: loadSettings yields combined mode, all five panels and  *)
(* the canonical order when the item is absent, empty, unreadable or does  *)
(* not parse to an object; for a stored object each of the three keys that *)
(* is missing or holds a falsy value (an empty string, 0, null) gets its   *)
(* default, and each key that holds any other value, an empty array        *)
(* included, keeps the stored value as it is.                              *)
C19_DefaultsPerKey ==
    [][LoadStep =>
          LET item == localStorage
          IN  /\ ~ParsesToObject(item) =>
                    /\ monitor'.displayMode = Combined
                    /\ monitor'.enabledPanels = JArray(DefaultPanels)
                    /\ monitor'.panelOrder = JArray(DefaultPanels)
              /\ ParsesToObject(item) =>
                    /\ IF HoldsTruthy(item, "displayMode")
                       THEN monitor'.displayMode = item.value.displayMode
                       ELSE monitor'.displayMode = Combined
                    /\ IF HoldsTruthy(item, "enabledPanels")
                       THEN monitor'.enabledPanels = item.value.enabledPanels
                       ELSE monitor'.enabledPanels = JArray(DefaultPanels)
                    /\ IF HoldsTruthy(item, "panelOrder")
                       THEN monitor'.panelOrder = item.value.panelOrder
                       ELSE monitor'.panelOrder = JArray(DefaultPanels)
      ]_vars

\* the node was created over a stored object whose displayMode is
\* 'individual', whose enabledPanels is null and whose panelOrder is 0: the
\* mode is kept and both lists are the defaults
C19_Witness ==
    /\ monitor # Null
    /\ lastEvent.type = "node-created"
    /\ ParsesToObject(localStorage)
    /\ DOMAIN localStorage.value = {"displayMode", "enabledPanels", "panelOrder"}
    /\ localStorage.value.enabledPanels = JNull
    /\ localStorage.value.panelOrder = JNumber(0)
    /\ monitor.displayMode = Individual
    /\ monitor.enabledPanels = JArray(DefaultPanels)
    /\ monitor.panelOrder = JArray(DefaultPanels)

(* C21: a save whose write the store accepts leaves an item from which    *)
(* loadSettings restores exactly the display mode, panel order and enabled *)
(* panels the save set, an empty list of enabled panels included; a save   *)
(* whose write fails still completes and leaves the item as it was.        *)
Restored == loadSettings(NewMonitorNode, localStorage)

C21_SaveLoadRoundTrip ==
    [][(EventStep /\ lastEvent'.type = "save-settings") =>
          IF lastEvent'.stored
          THEN /\ Restored'.displayMode = monitor'.displayMode
               /\ Restored'.enabledPanels = monitor'.enabledPanels
               /\ Restored'.panelOrder = monitor'.panelOrder
          ELSE localStorage' = localStorage]_vars

\* a stored save with no panel enabled
C21_Witness ==
    /\ lastEvent.type = "save-settings"
    /\ lastEvent.stored
    /\ monitor.enabledPanels = JArray(<<>>)
    /\ monitor.displayMode = Individual
    /\ Restored.enabledPanels = JArray(<<>>)

(* C20 as claimed: once the node's settings are loaded or saved,           *)
(* displayMode is 'combined' or 'individual' and enabledPanels and         *)
(* panelOrder hold only the names cpu, gpu, vram, ram, temp.               *)
C20_AsClaimed ==
    monitor # Null =>
       /\ monitor.displayMode \in {Combined, Individual}
       /\ monitor.enabledPanels.t = "array"
       /\ \A i \in 1..Len(monitor.enabledPanels.v) :
              monitor.enabledPanels.v[i] \in PanelNames
       /\ monitor.panelOrder.t = "array"
       /\ \A i \in 1..Len(monitor.panelOrder.v) :
              monitor.panelOrder.v[i] \in PanelNames

-----------------------------------------------------------------------------
(* SpecHost: one monitor node with the id MonitorId in a graph whose other  *)
(* nodes are Units; the host's lifecycle events, pushed samples, timer      *)
(* ticks and "kikostats.node_complete" events in any order, the clock       *)
(* standing still.                                                          *)

HostUnits == Units \cup {MonitorId}

\* the outputs of an "executed" event: none, the monitor's report with a
\* temperature of 0, a report of the system alone
HostOutputs ==
    { Null,
      <<Item("GPU Statistics", 0), Item("Utilization", 55), Item("Temperature", 0),
        Item("System Statistics", 0), Item("CPU Usage", 42)>>,
      <<Item("System Statistics", 0), Item("CPU Usage", 42), Item("Temperature", 0)>> }

\* a sample that lists a node of the backend
HostSamples ==
    { [gpu |-> GpuFull(FALSE, 0, 0, 0, 0),
       system |-> SystemFull(TRUE, 42, 4096, 16384),
       nodes |-> <<[node_id |-> 7, duration_ms |-> 777]>>, timestamp |-> 1] }

\* Math.random() near 1 for the averages and 0 for the maxima
HostDraws == { Draws(0, 999, 0, 999, 0, 500, 500) }

HostTempDraws == {12}

HostStatsDraws == { StatsDraws(12, 0, 0, 0, 0) }

HostMetrics == { [node_id |-> 1, duration_ms |-> 777] }

\* event.detail.total_execution_time
HostTotals == {12}

NextHost ==
    \/ OnNodeCreated
    \/ \E id \in Units :
          /\ sinceRunEnd.starts < MaxHostStarts
          /\ UnitStart(id)
    \/ \E id \in HostUnits, output \in HostOutputs, r \in HostDraws,
          tempDraw \in HostTempDraws :
          /\ MapHas(kikoStatsActiveNodes, id) => Len(emitted) < MaxHostProduced
          /\ Len(ingested) < MaxHostIngestions
          /\ Executed(id, output, r, tempDraw)
    \/ \E rs \in [1..Len(kikoStatsActiveNodes) -> HostDraws] :
          /\ Len(emitted) + Len(kikoStatsActiveNodes) <= MaxHostProduced
          /\ RunEnd(rs)
    \/ \E data \in HostSamples, tempDraw \in HostTempDraws :
          /\ monitor # Null
          /\ Len(ingested) < MaxHostIngestions
          /\ MonitorEvent(data, tempDraw)
    \/ \E t \in intervals, d \in HostStatsDraws, tempDraw \in HostTempDraws :
          /\ Len(ingested) < MaxHostIngestions
          /\ TimerTick(t, d, tempDraw)
    \/ \E metrics \in HostMetrics : NodeComplete(metrics)
    \/ \E totalSeconds \in HostTotals : WorkflowComplete(totalSeconds)
    \/ AnimationFrame
    \/ \E d \in HostStatsDraws, tempDraw \in HostTempDraws :
          /\ Len(ingested) < MaxHostIngestions
          /\ InitialDraw(d, tempDraw)

SpecHost == Init /\ [][NextHost]_vars

(* C23 as claimed: unit-start, unit-end and run-end events leave the        *)
(* snapshot, the five rings and the cursor of the monitor node as they      *)
(* were, and an ingestion leaves the active map and the completed log as    *)
(* they were.                                                               *)
C23_AsClaimed ==
    [][(EventStep /\ monitor # Null) =>
          /\ lastEvent'.type \in {"unit-start", "unit-end", "run-end"} =>
                EngineState(monitor') = EngineState(monitor)
          /\ ingested' # ingested =>
                UNCHANGED <<kikoStatsActiveNodes, kikoStatsCompletedNodes>>
      ]_vars

(* C23: unit-start and run-end events never change the snapshot, the rings  *)
(* or the cursor; a unit-end ("executed") event changes them only by the    *)
(* ingestion of its own text output, and only in a registered monitor node  *)
(* whose id is at most 2 away from the event's node id; samples pushed by   *)
(* "kikostats.monitor" and the timer's polls leave the active map and the   *)
(* completed log as they were.                                              *)
C23_EventsAndIngestion ==
    [][(EventStep /\ monitor # Null) =>
          /\ lastEvent'.type \in {"unit-start", "run-end"} =>
                /\ EngineState(monitor') = EngineState(monitor)
                /\ ingested' = ingested
          /\ (/\ lastEvent'.type = "unit-end"
              /\ EngineState(monitor') # EngineState(monitor)) =>
                /\ monitor.registered
                /\ monitor.id - lastEvent'.id \in -2..2
                /\ Len(ingested') = Len(ingested) + 1
                /\ ingested'[Len(ingested')].by = "executed"
          /\ lastEvent'.type \in {"monitor", "timer"} =>
                UNCHANGED <<kikoStatsActiveNodes, kikoStatsCompletedNodes>>
      ]_vars

\* the executed event of unit 2 has both completed the unit and fed the
\* monitor node
C23_Witness ==
    /\ monitor # Null
    /\ lastEvent.type = "unit-end"
    /\ lastEvent.id = 2
    /\ lastEvent.produced = 1
    /\ Len(ingested) = 1
    /\ ingested[1].by = "executed"
    /\ monitor.historyIndex = 1

(* C25 as claimed: every metrics record the correlator emits is            *)
(* consistent: 0 <= avg <= max <= 100 for the cpu and for the gpu          *)
(* percentages (in thousandths of a percent here) and a sample count of    *)
(* at least 1.                                                             *)
C25_AsClaimed ==
    \A i \in 1..Len(emitted) :
        /\ 0 <= emitted[i].avg_cpu_percent
        /\ emitted[i].avg_cpu_percent <= emitted[i].max_cpu_percent
        /\ emitted[i].max_cpu_percent <= 100000
        /\ 0 <= emitted[i].avg_gpu_utilization
        /\ emitted[i].avg_gpu_utilization <= emitted[i].max_gpu_utilization
        /\ emitted[i].max_gpu_utilization <= 100000
        /\ emitted[i].sample_count >= 1

(* C26 as claimed: the monitor node ingests the text output of an executed *)
(* event only when the event's node id is its own id.                      *)
C26_AsClaimed ==
    [][(EventStep /\ monitor # Null /\ lastEvent'.type = "unit-end"
          /\ ingested' # ingested) =>
             lastEvent'.id = monitor.id
      ]_vars

(* C27 as claimed: a "kikostats.node_complete" event that arrives while a  *)
(* monitor node is registered records the event's metrics: it changes the  *)
(* node or the completed log the node lists.                               *)
C27_AsClaimed ==
    [][(EventStep /\ lastEvent'.type = "node-complete"
          /\ monitor # Null /\ monitor.registered) =>
             \/ monitor' # monitor
             \/ kikoStatsCompletedNodes' # kikoStatsCompletedNodes
      ]_vars

-----------------------------------------------------------------------------
(* SpecWindow: one node and what its user does with it: saving settings,   *)
(* resizing by hand, resetting to automatic sizing, popping the charts out *)
(* and in, removing the node; with the callbacks these leave pending, the  *)
(* timer's ticks, pushed samples and the executed events of the node.      *)

\* the sizes the user drags the node to
UserSizes == { <<500, 800>> }

WindowChecks == { PanelNames, {"cpu", "temp"} }

\* what the browser may lay out of the #nodeList element
Layouts == { [nodeListOffsetTop |-> 400, nodeListScrollHeight |-> 300] }

\* the output of the node's own "executed" event
WindowOutputs ==
    { <<Item("GPU Statistics", 0), Item("Utilization", 55), Item("Temperature", 0),
        Item("System Statistics", 0), Item("CPU Usage", 42)>> }

NextWindow ==
    \/ OnNodeCreated
    \/ \E d \in PanelStatsDraws, tempDraw \in PanelTempDraws :
          InitialDraw(d, tempDraw)
    \/ \E selectedMode \in {"combined", "individual"}, checked \in WindowChecks,
          d \in PanelStatsDraws, tempDraw \in PanelTempDraws :
          /\ Len(ingested) < MaxWindowIngestions
          /\ SaveSettings(selectedMode, DefaultPanels, checked, TRUE, d, tempDraw)
    \/ \E size \in UserSizes : OnUserResize(size)
    \/ ResetAutoSize
    \/ \E d \in PanelStatsDraws, tempDraw \in PanelTempDraws :
          /\ Len(ingested) < MaxWindowIngestions
          /\ PopoutClick(d, tempDraw)
    \/ \E d \in PanelStatsDraws, tempDraw \in PanelTempDraws :
          /\ Len(ingested) < MaxWindowIngestions
          /\ OnRemoved(d, tempDraw)
    \/ /\ monitor # Null
       /\ (drawChartThrows(monitor) \/ monitor.chartUpdateInterval = 0) =>
             intervalSeq < MaxWindowIntervals
       /\ ResizeDebounced
    \/ \E t \in intervals, d \in PanelStatsDraws, tempDraw \in PanelTempDraws :
          /\ Len(ingested) < MaxWindowIngestions
          /\ TimerTick(t, d, tempDraw)
    \/ \E data \in PanelSamples, tempDraw \in PanelTempDraws :
          /\ monitor # Null
          /\ monitor.registered => Len(ingested) < MaxWindowIngestions
          /\ MonitorEvent(data, tempDraw)
    \/ \E output \in WindowOutputs, r \in HostDraws, tempDraw \in PanelTempDraws :
          /\ monitor # Null
          /\ ExecutedIngests(monitor, MonitorId, output) =>
                Len(ingested) < MaxWindowIngestions
          /\ Executed(MonitorId, output, r, tempDraw)
    \/ \E layout \in Layouts : Reflow(layout)

\* what the page may find under 'kikoStats_settings': nothing, or an
\* object whose enabledPanels is the number 1
WindowItems == { Null, StoredItem("json", [enabledPanels |-> JNumber(1)]) }

\* the page is open in a browser with or without ResizeObserver, and the
\* node may be created before setup() has loaded Chart.js
InitWindow ==
    /\ InitCorrelator
    /\ InitMonitor
    /\ localStorage \in WindowItems
    /\ ResizeObserver \in BOOLEAN
    /\ Chart \in BOOLEAN

SpecWindow == InitWindow /\ [][NextWindow]_vars

(* C15: the page never has more than one live update timer of the node,    *)
(* and whenever a timer is started every timer that was live before is     *)
(* cancelled; so it is when restartChartSystem is run in any state the     *)
(* node gets into.                                                         *)
C15_OneLiveTimer ==
    /\ [](Cardinality(intervals) <= 1)
    /\ [][intervalSeq' # intervalSeq =>
             /\ intervals' = {intervalSeq'}
             /\ monitor'.chartUpdateInterval = intervalSeq'
         ]_vars
    /\ [](monitor # Null =>
            LET w == restartChartSystem(World(monitor, intervals, intervalSeq))
            IN  /\ w.seq = intervalSeq + 1
                /\ w.intervals = {w.seq}
                /\ w.self.chartUpdateInterval = w.seq)

\* the resize callback has caught an exception on a node in the graph,
\* whose first timer was live, and restartChartSystem has started the
\* second: it is the only live one
C15_Witness ==
    /\ monitor # Null
    /\ monitor.registered
    /\ lastEvent.type = "resize"
    /\ intervalSeq = 2
    /\ intervals = {2}
    /\ monitor.chartUpdateInterval = 2

\* the node has been removed from the graph
Removed == monitor # Null /\ ~monitor.registered

(* C28 as claimed: onRemoved takes the node out of the registry and        *)
(* cancels its timer; from then on the node stays out of the registry, no  *)
(* timer is live and none is started, the debounced resize callback that   *)
(* removal left pending included, and no pushed sample, timer tick,        *)
(* executed event or run of that callback changes the node's snapshot,     *)
(* rings or cursor.                                                        *)
C28_AsClaimed ==
    /\ [][(EventStep /\ lastEvent'.type = "removed") =>
             /\ ~monitor'.registered
             /\ intervals' = {}
         ]_vars
    /\ [](Removed => intervals = {})
    /\ [][Removed =>
             /\ ~monitor'.registered
             /\ intervalSeq' = intervalSeq
             /\ lastEvent'.type \in {"monitor", "timer", "unit-end", "resize"} =>
                   EngineState(monitor') = EngineState(monitor)
         ]_vars

(* C29 as claimed: a step that follows a resize by the user's hand and is  *)
(* neither another such resize nor "Reset to Auto-sizing" leaves the       *)
(* node's size as the user set it, from the node's creation on.            *)
C29_AsClaimed ==
    [][(EventStep /\ monitor # Null /\ lastEvent.type = "user-resize"
          /\ lastEvent'.type \notin {"user-resize", "reset-auto-size"}) =>
             monitor'.size = monitor.size
      ]_vars

(* C30 as claimed: in every state isChartsPoppedOut is true exactly when   *)
(* popoutWindow holds a window, whatever popout clicks, saves and removal  *)
(* have taken place; createPopoutWindow changes nothing on a node whose    *)
(* charts are popped out, and closePopoutWindow nothing on one whose       *)
(* charts are not.                                                         *)
C30_AsClaimed ==
    monitor # Null =>
        /\ monitor.isChartsPoppedOut <=> monitor.popoutWindow
        /\ monitor.isChartsPoppedOut => createPopoutWindow(monitor) = monitor
        /\ ~monitor.isChartsPoppedOut =>
              \A d \in PanelStatsDraws, tempDraw \in PanelTempDraws :
                  closePopoutWindow(monitor, d, tempDraw) = monitor
=============================================================================
